---- MODULE Spec2Model ----
(***************************************************************************)
(* Cyber Range configuration service and delivery clients.                 *)
(*                                                                         *)
(* Spec       : the configuration server handling one request at a time    *)
(*              (internal/server/server.go), with a clock.                 *)
(* SpecConc   : the same handlers step by step, interleaved, with the      *)
(*              RWMutex and the slices' backing arrays.                    *)
(* SpecMain   : cmd/server main: idle monitor, signal goroutine, shutdown. *)
(* SpecQuiet  : SpecMain with no OS signal delivered, under fairness.      *)
(* SpecClient : the clients' requestConfigWithRetry.                       *)
(* SpecApply  : the network appliers of the clients (UCI, netsh,            *)
(*              NetworkManager, Netplan, ifupdown) on a host.               *)
(* SpecRun    : one run of a client's main, from start to exit.             *)
(* SpecParse  : the server resolving a record whose network declaration   *)
(*              is drawn from a set of declarations.                       *)
(* SpecReload : two reloads and a resolve interleaved.                     *)
(* SpecTwice  : two resolves of one MAC with no reload.                    *)
(* SpecRunFair: SpecRun in which a run that has not exited goes on.        *)
(* SpecForge  : forge's subnet allocator and forge destroy, one            *)
(*              invocation at a time (subnets.json).                       *)
(* SpecForgeRace : two forge invocations allocating at once.               *)
(***************************************************************************)
EXTENDS Integers, Sequences, FiniteSets, TLC

VARIABLES
    heap,          \* backing arrays of []config.LXDInstance: array id -> records
    instances,     \* Server.instances: the id of the backing array it points to
    lastActivity,  \* Server.lastActivity
    now,           \* the wall clock, time.Now()
    req,           \* the request last handled to completion
    resp,          \* the response written for it
    mu,            \* Server.mu: [w |-> writer or "none", r |-> set of readers]
    rpc, rmac, rptr, rnets, rresp,          \* HandleConfig goroutines
    rsnap,         \* the records s.instances held when the goroutine looked up
    lpc, ldata, lnew, lresp,                \* HandleReload goroutines
    idleTimeout,   \* cmd/server: the -idle-timeout flag
    shutdown,      \* cmd/server: the shutdown channel, "open" or "closed"
    closers,       \* who has called close(shutdown)
    panicked,      \* the process died of a panic
    tickerC,       \* a tick is buffered in ticker.C
    sigChan,       \* a signal is buffered in sigChan
    monPc, monLa,  \* the idle monitor goroutine and the lastActivity it read
    sigPc,         \* the signal goroutine
    mainPc,        \* main, from "Wait for shutdown signal" on
    maxRetries,    \* client: requestConfigWithRetry's retry budget
    cpc, ci,       \* client: where the run is, and the loop index i
    clog,          \* client: the MAC lookup, sleeps and fetch attempts so far
    cret,          \* client: what requestConfigWithRetry returned
    exitCode,      \* client: the process exit status
    retryDelay,    \* client: requestConfigWithRetry's retryDelay, in seconds
    platform,      \* client host: "linux", "openwrt" or "windows"
    probes,        \* client host: what detectNetworkMethod's probes find
    backend,       \* client host: the state of the network backends
    op,            \* client host: the application last made, and its result
    applies,       \* client host: the number of applications made
    marker,        \* client host: the marker file exists
    hostname,      \* client host: the system hostname
    served,        \* client run: the response the server has for this client
    effects,       \* client run: what the run has done to the host, in order
    logFile,       \* client run: the log file, "closed" or "open"
    noDelay,       \* client run: the -no-delay flag
    subnetsFile,   \* forge: the central subnets.json
    forge          \* forge: the invocations, what each has read and returned

mainVars   == <<idleTimeout, shutdown, closers, panicked, tickerC, sigChan,
                monPc, monLa, sigPc, mainPc>>
hostVars   == <<retryDelay, platform, probes, backend, op, applies, marker,
                hostname, served, effects, logFile, noDelay,
                subnetsFile, forge>>
clientVars == <<maxRetries, cpc, ci, clog, cret, exitCode, hostVars>>

vars == <<heap, instances, lastActivity, now, req, resp, mu,
          rpc, rmac, rptr, rnets, rresp, rsnap, lpc, ldata, lnew, lresp,
          mainVars, clientVars>>

serverVars == <<heap, instances, lastActivity, req, resp>>
concVars   == <<mu, rpc, rmac, rptr, rnets, rresp, rsnap, lpc, ldata, lnew, lresp>>

-----------------------------------------------------------------------------
(* Bounds *)

MaxMacLen  == 2     \* longest mac query parameter tried
MaxRecords == 2     \* most records in an instances file
MaxNow     == 2     \* the clock stops here
MaxTimeout == 3     \* largest -idle-timeout tried, in clock units
MaxRequestTime == 3 \* the server main's requests arrive up to this time
MaxRetries == 3     \* largest retry budget tried
MaxApplies == 1     \* most applications settled on one host

-----------------------------------------------------------------------------
(* Strings.  A string is a sequence of characters. *)

Chars == {"a", "A", "-", ":"}

SeqsUpTo(S, n) == UNION {[1..k -> S] : k \in 0..n}

\* unicode.ToLower on one character
LowerChar(c) == IF c = "A" THEN "a" ELSE c

\* strings.ToLower
ToLower(s) == [i \in 1..Len(s) |-> LowerChar(s[i])]

\* strings.ReplaceAll(s, "-", ":")
ReplaceHyphens(s) == [i \in 1..Len(s) |-> IF s[i] = "-" THEN ":" ELSE s[i]]

\* strings.EqualFold: equality under simple case folding
EqualFold(s, t) ==
    /\ Len(s) = Len(t)
    /\ \A i \in 1..Len(s) : LowerChar(s[i]) = LowerChar(t[i])

\* a normalization that forgets the separators
NormalizeCaseOnly(mac) == ToLower(mac)

\* server.go:100  mac = strings.ToLower(strings.ReplaceAll(mac, "-", ":"))
NormalizeMAC(mac) == ToLower(ReplaceHyphens(mac))

\* the forms of a MAC a client may send
ToUpper(s)    == [i \in 1..Len(s) |-> IF s[i] = "a" THEN "A" ELSE s[i]]
Hyphenated(s) == [i \in 1..Len(s) |-> IF s[i] = ":" THEN "-" ELSE s[i]]

-----------------------------------------------------------------------------
(* Inventory records (config.LXDInstance).  A metadata key is the sequence *)
(* of its parts, so that strings.Contains(key, "hwaddr") can be computed.  *)

KHw0  == <<"volatile.eth0.", "hwaddr">>
KHw1  == <<"volatile.eth1.", "hwaddr">>
KNote == <<"user.mac">>
KDecl == <<"cloud-init.network-config">>

\* strings.Contains(key, "hwaddr")
ContainsHwaddr(key) == \E i \in 1..Len(key) : key[i] = "hwaddr"

-----------------------------------------------------------------------------
(* Network declarations.  The value under "cloud-init.network-config" is a *)
(* text (a sequence of words; " " is white space) together with what       *)
(* yaml.Unmarshal makes of it: an error, or the ethernets it declares.     *)

UpperWord(w) == IF w \in {"dhcp", "Dhcp", "DHCP"} THEN "DHCP" ELSE w

\* strings.ToUpper on a text
ToUpperText(t) == [i \in 1..Len(t) |-> UpperWord(t[i])]

\* strings.TrimSpace
RECURSIVE TrimLeft(_)
TrimLeft(t) == IF t # <<>> /\ Head(t) = " " THEN TrimLeft(Tail(t)) ELSE t
RECURSIVE TrimRight(_)
TrimRight(t) ==
    IF t # <<>> /\ t[Len(t)] = " " THEN TrimRight(SubSeq(t, 1, Len(t) - 1)) ELSE t
TrimSpace(t) == TrimRight(TrimLeft(t))

NoEth == [DHCP4 |-> FALSE, Addresses |-> <<>>, Gateway4 |-> "", Routes |-> <<>>,
          Nameservers |-> <<>>]

RouteTo(to, via) == [To |-> to, Via |-> via]

\* a test that knows the word default only
IsDefaultRouteWordOnly(route) == route.To = "default"

IsDefaultRoute(route) == route.To = "default" \/ route.To = "0.0.0.0/0"

\* a gateway that a later default route overrides
RECURSIVE GatewayFromLast(_, _)
GatewayFromLast(gw, routes) ==
    IF routes = <<>> THEN gw
    ELSE GatewayFromLast(IF IsDefaultRoute(Head(routes))
                         THEN Head(routes).Via ELSE gw,
                         Tail(routes))

\* server.go:197-207, the gateway after the routes have been scanned
RECURSIVE GatewayFrom(_, _)
GatewayFrom(gw, routes) ==
    IF routes = <<>> THEN gw
    ELSE GatewayFrom(IF IsDefaultRoute(Head(routes)) /\ gw = ""
                     THEN Head(routes).Via ELSE gw,
                     Tail(routes))

\* custom routes collected newest first
RECURSIVE CustomRoutesNewestFirst(_)
CustomRoutesNewestFirst(routes) ==
    IF routes = <<>> THEN <<>>
    ELSE IF IsDefaultRoute(Head(routes)) THEN CustomRoutesNewestFirst(Tail(routes))
    ELSE CustomRoutesNewestFirst(Tail(routes)) \o <<Head(routes)>>

\* server.go:197-207, the custom routes appended to netConfig.Routes
RECURSIVE CustomRoutes(_)
CustomRoutes(routes) ==
    IF routes = <<>> THEN <<>>
    ELSE IF IsDefaultRoute(Head(routes)) THEN CustomRoutes(Tail(routes))
    ELSE <<Head(routes)>> \o CustomRoutes(Tail(routes))

\* server.go:184-212, the NetworkConfig of one ethernet device
NetConfigOf(eth) ==
    [DHCP    |-> eth.DHCP4,
     Address |-> IF Len(eth.Addresses) > 0 THEN eth.Addresses[1] ELSE "",
     Gateway |-> GatewayFrom(eth.Gateway4, eth.Routes),
     Routes  |-> CustomRoutes(eth.Routes),
     DNS     |-> eth.Nameservers]

EmptyNetworks == [n \in {} |-> NoEth]

\* config map lookup: the zero value for a missing key
DeclOf(rec) ==
    IF KDecl \in DOMAIN rec.Config THEN rec.Config[KDecl]
    ELSE [text |-> <<>>, yamlErr |-> FALSE, ethernets |-> EmptyNetworks]

\* Server.parseAllNetworkConfigs
parseAllNetworkConfigs(rec) ==
    LET decl == DeclOf(rec) IN
    IF TrimSpace(ToUpperText(decl.text)) = <<"DHCP">> THEN EmptyNetworks
    ELSE IF decl.yamlErr THEN EmptyNetworks
    ELSE [n \in DOMAIN decl.ethernets |-> NetConfigOf(decl.ethernets[n])]

DefaultNetwork == [DHCP |-> TRUE, Address |-> "", Gateway |-> "", Routes |-> <<>>,
                   DNS |-> <<>>]

\* a primary network that is the zero NetworkConfig when there is no entry
PrimaryChoicesZero(networks) ==
    IF DOMAIN networks = {} THEN {[DefaultNetwork EXCEPT !.DHCP = FALSE]}
    ELSE {networks[n] : n \in DOMAIN networks}

\* server.go:119-128: the first entry of a map range, or DHCP for no entry
PrimaryChoices(networks) ==
    IF DOMAIN networks = {} THEN {DefaultNetwork}
    ELSE {networks[n] : n \in DOMAIN networks}

-----------------------------------------------------------------------------
(* The records and files the model draws from. *)

DeclDHCP    == [text |-> <<" ", "Dhcp">>, yamlErr |-> TRUE, ethernets |-> EmptyNetworks]
DeclGarbage == [text |-> <<"x">>, yamlErr |-> TRUE, ethernets |-> EmptyNetworks]
DeclStatic  ==
    [text |-> <<"x", " ", "x">>, yamlErr |-> FALSE,
     ethernets |-> [n \in {"eth-0"} |->
                [DHCP4 |-> FALSE, Addresses |-> <<"192.168.1.15/24">>,
                 Gateway4 |-> "",
                 Routes |-> <<RouteTo("default", "192.168.1.1"),
                              RouteTo("10.0.2.0/24", "192.168.1.5")>>,
                 Nameservers |-> <<"1.1.1.1">>]]]

Cfg(k, v) == [x \in {k} |-> v]

RecA == [Name |-> "a", Config |-> Cfg(KHw0, <<"a", "A">>) @@ Cfg(KDecl, DeclStatic)]
RecB == [Name |-> "b", Config |-> Cfg(KHw0, <<"A", "a">>) @@ Cfg(KHw1, <<"A", ":">>)
                                  @@ Cfg(KDecl, DeclDHCP)]
RecC == [Name |-> "c", Config |-> Cfg(KNote, <<"a", ":">>) @@ Cfg(KHw0, <<"a", "-">>)
                                  @@ Cfg(KDecl, DeclGarbage)]

Records == {RecA, RecB, RecC}

Inventories == SeqsUpTo(Records, MaxRecords)

\* what os.ReadFile and json.Unmarshal make of the instances file
Unreadable == [kind |-> "unreadable", records |-> <<>>]
BadJSON    == [kind |-> "badjson", records |-> <<>>]
FileOf(recs) == [kind |-> "ok", records |-> recs]
Files == {Unreadable, BadJSON} \cup {FileOf(recs) : recs \in Inventories}

Macs    == SeqsUpTo(Chars, MaxMacLen)
Methods == {"GET", "POST"}

-----------------------------------------------------------------------------
(* The client host.  Interface names and UCI aliases are sequences of      *)
(* characters; addresses, gateways and DNS servers are strings.            *)

RetryDelay == 60     \* seconds: requestConfigWithRetry(..., 60*time.Second)

Platforms == {"linux", "openwrt", "windows"}

Eth0  == <<"e", "t", "h", "0">>
Eth1  == <<"e", "t", "h", "1">>
EthD1 == <<"e", "t", "h", "-", "1">>
Eth5  == <<"e", "t", "h", "5">>
EthD0 == <<"e", "t", "h", "-", "0">>
Eth2  == <<"e", "t", "h", "2">>
EthD2 == <<"e", "t", "h", "-", "2">>
Eth3  == <<"e", "t", "h", "3">>
EthD3 == <<"e", "t", "h", "-", "3">>
EthD7 == <<"e", "t", "h", "-", "7">>
Eth12 == <<"e", "t", "h", "1", "2">>
ETH0  == <<"E", "T", "H", "0">>
EthU1 == <<"E", "t", "h", "-", "1">>
Ens5  == <<"e", "n", "s", "5">>
Wan   == <<"w", "a", "n">>
Lan   == <<"l", "a", "n">>
Lan2  == <<"l", "a", "n", "2">>
Lan3  == <<"l", "a", "n", "3">>

\* openwrt.InterfaceMapping
InterfaceMapping ==
    Cfg(Eth0, Wan) @@ Cfg(EthD0, Wan) @@
    Cfg(Eth1, Lan) @@ Cfg(EthD1, Lan) @@
    Cfg(Eth2, Lan2) @@ Cfg(EthD2, Lan2) @@
    Cfg(Eth3, Lan3) @@ Cfg(EthD3, Lan3)

\* strings.ToLower on an interface name
LowerLetter(c) ==
    CASE c = "E" -> "e" [] c = "T" -> "t" [] c = "H" -> "h" [] c = "A" -> "a"
      [] c = "N" -> "n" [] c = "S" -> "s" [] c = "L" -> "l" [] c = "W" -> "w"
      [] OTHER -> c
ToLowerName(n) == [i \in 1..Len(n) |-> LowerLetter(n[i])]

\* strings.ReplaceAll(s, pat, ""): the occurrences of pat, left to right
RECURSIVE RemoveAll(_, _)
RemoveAll(s, pat) ==
    IF Len(s) < Len(pat) THEN s
    ELSE IF SubSeq(s, 1, Len(pat)) = pat
         THEN RemoveAll(SubSeq(s, Len(pat) + 1, Len(s)), pat)
         ELSE <<Head(s)>> \o RemoveAll(Tail(s), pat)

\* a mapping with no rule for interface 0
MapInterfaceNameNoWan(cloudInitName) ==
    IF cloudInitName \in DOMAIN InterfaceMapping THEN InterfaceMapping[cloudInitName]
    ELSE LET name == RemoveAll(RemoveAll(ToLowerName(cloudInitName),
                                         <<"e", "t", "h", "-">>),
                               <<"e", "t", "h">>)
         IN IF name = <<"1">> THEN Lan
            ELSE Lan \o name

\* openwrt.MapInterfaceName
MapInterfaceName(cloudInitName) ==
    IF cloudInitName \in DOMAIN InterfaceMapping THEN InterfaceMapping[cloudInitName]
    ELSE LET name == RemoveAll(RemoveAll(ToLowerName(cloudInitName),
                                         <<"e", "t", "h", "-">>),
                               <<"e", "t", "h">>)
         IN IF name = <<"0">> THEN Wan
            ELSE IF name = <<"1">> THEN Lan
            ELSE Lan \o name

\* net.ParseCIDR on the addresses the model uses, with ip.String(), the
\* prefix length and net.IP(ipNet.Mask).String(); any other text is an error
ParseCIDR(a) ==
    CASE a = "192.168.1.15/24" ->
           [err |-> FALSE, ip |-> "192.168.1.15", ones |-> 24, mask |-> "255.255.255.0"]
      [] a = "10.0.0.7/16" ->
           [err |-> FALSE, ip |-> "10.0.0.7", ones |-> 16, mask |-> "255.255.0.0"]
      [] a = "FD00::1/64" ->
           [err |-> FALSE, ip |-> "fd00::1", ones |-> 64, mask |-> "ffff:ffff:ffff:ffff::"]
      [] OTHER -> [err |-> TRUE, ip |-> "", ones |-> 0, mask |-> ""]

\* the NetworkConfigs the model applies (config.NetworkConfig)
NetCfg(dhcp, address, gateway, dns, routes) ==
    [DHCP |-> dhcp, Address |-> address, Gateway |-> gateway, Routes |-> routes,
     DNS |-> dns]

CfgDHCP    == NetCfg(TRUE, "", "", <<>>, <<>>)
CfgStatic  == NetCfg(FALSE, "192.168.1.15/24", "192.168.1.1", <<"1.1.1.1", "8.8.8.8">>,
                     <<RouteTo("10.0.2.0/24", "192.168.1.5")>>)
CfgBare    == NetCfg(FALSE, "10.0.0.7/16", "", <<>>, <<>>)
CfgV6      == NetCfg(FALSE, "FD00::1/64", "fd00::ff", <<"1.1.1.1">>, <<>>)
CfgNoAddr  == NetCfg(FALSE, "", "", <<>>, <<>>)
CfgBadAddr == NetCfg(FALSE, "10.0.0.7", "10.0.0.1", <<>>, <<>>)
CfgDHCPBad == NetCfg(TRUE, "10.0.0.7", "", <<>>, <<RouteTo("10.0.2.0/24", "192.168.1.5")>>)

NetworkConfigs == {CfgDHCP, CfgStatic, CfgBare, CfgV6, CfgNoAddr, CfgBadAddr, CfgDHCPBad}

\* the NetworkConfigs applied on Windows: these and one with three DNS servers
CfgThreeDns == NetCfg(FALSE, "10.0.0.7/16", "10.0.0.1", <<"1.1.1.1", "8.8.8.8", "9.9.9.9">>,
                      <<RouteTo("10.0.2.0/24", "10.0.0.5")>>)
WindowsConfigs == NetworkConfigs \cup {CfgThreeDns}

\* an external command: the tool, its verb, what it acts on, the key and the
\* values given
Command(tool, verb, target, key, val) ==
    [tool |-> tool, verb |-> verb, target |-> target, key |-> key, val |-> val]

\* the result of running commands against the backends b
Result(b, err, ran) == [b |-> b, err |-> err, ran |-> ran, failed |-> {}]

(* UCI.  The staged network configuration maps each section that exists to *)
(* its options; an option that is not set is "" (the list dns: <<>>).      *)

UciSection(proto, ipaddr, netmask, gateway, dns) ==
    [proto |-> proto, ipaddr |-> ipaddr, netmask |-> netmask, gateway |-> gateway,
     dns |-> dns]

UciUnset(key) == IF key = "dns" THEN <<>> ELSE ""

\* uci set / delete / add_list on network.<target>.<key>
UciExec(b, c) ==
    LET u == b.uci
        s == c.target
    IN  IF s \notin DOMAIN u THEN Result(b, TRUE, <<c>>)
        ELSE CASE c.verb = "set" ->
                    Result([b EXCEPT !.uci[s][c.key] = c.val[1]], FALSE, <<c>>)
               [] c.verb = "delete" ->
                    IF u[s][c.key] = UciUnset(c.key) THEN Result(b, TRUE, <<c>>)
                    ELSE Result([b EXCEPT !.uci[s][c.key] = UciUnset(c.key)], FALSE, <<c>>)
               [] c.verb = "add_list" ->
                    Result([b EXCEPT !.uci[s][c.key] = Append(@, c.val[1])], FALSE, <<c>>)

\* openwrt/network.go:66-76 and 116-126: run the commands in order; the
\* error of a delete is ignored, any other error is returned at once
RECURSIVE RunUciCommands(_, _, _)
RunUciCommands(b, commands, ran) ==
    IF commands = <<>> THEN Result(b, FALSE, ran)
    ELSE LET c == Head(commands)
             r == UciExec(b, c)
         IN  IF r.err /\ c.verb # "delete"
             THEN Result(r.b, TRUE, Append(ran, c))
             ELSE RunUciCommands(r.b, Tail(commands), Append(ran, c))

\* a change to DHCP that leaves the DNS list in place
configureInterfaceDHCPKeepsDns(b, uciInterface) ==
    RunUciCommands(b,
        << Command("uci", "set", uciInterface, "proto", <<"dhcp">>),
           Command("uci", "delete", uciInterface, "ipaddr", <<>>),
           Command("uci", "delete", uciInterface, "netmask", <<>>),
           Command("uci", "delete", uciInterface, "gateway", <<>>) >>,
        <<>>)

\* openwrt.configureInterfaceDHCP
configureInterfaceDHCP(b, uciInterface) ==
    RunUciCommands(b,
        << Command("uci", "set", uciInterface, "proto", <<"dhcp">>),
           Command("uci", "delete", uciInterface, "ipaddr", <<>>),
           Command("uci", "delete", uciInterface, "netmask", <<>>),
           Command("uci", "delete", uciInterface, "gateway", <<>>),
           Command("uci", "delete", uciInterface, "dns", <<>>) >>,
        <<>>)

\* the commands configureInterfaceStatic builds (openwrt/network.go:95-114)
StaticUciCommands(uciInterface, cfg, p) ==
    << Command("uci", "set", uciInterface, "proto", <<"static">>),
       Command("uci", "set", uciInterface, "ipaddr", <<p.ip>>),
       Command("uci", "set", uciInterface, "netmask", <<p.mask>>) >>
    \o (IF cfg.Gateway # ""
        THEN <<Command("uci", "set", uciInterface, "gateway", <<cfg.Gateway>>)>>
        ELSE <<>>)
    \o (IF Len(cfg.DNS) > 0
        THEN <<Command("uci", "delete", uciInterface, "dns", <<>>)>>
             \o [i \in 1..Len(cfg.DNS) |->
                    Command("uci", "add_list", uciInterface, "dns", <<cfg.DNS[i]>>)]
        ELSE <<>>)

\* openwrt.configureInterfaceStatic
configureInterfaceStatic(b, uciInterface, cfg) ==
    LET p == ParseCIDR(cfg.Address)
    IN  IF p.err THEN Result(b, TRUE, <<>>)
        ELSE RunUciCommands(b, StaticUciCommands(uciInterface, cfg, p), <<>>)

\* openwrt.ConfigureInterface
ConfigureInterface(b, uciInterface, cfg) ==
    IF cfg.DHCP THEN configureInterfaceDHCP(b, uciInterface)
    ELSE configureInterfaceStatic(b, uciInterface, cfg)

\* cmd/client/openwrt main, lines 89-96: every interface of the map in the
\* order of the range; a failure is logged and the loop goes on.  failed is
\* the set of the names whose configuration failed.
RECURSIVE ConfigureEachInterface(_, _, _, _, _)
ConfigureEachInterface(b, networks, order, failed, ran) ==
    IF order = <<>> THEN [Result(b, FALSE, ran) EXCEPT !.failed = failed]
    ELSE LET r == ConfigureInterface(b, MapInterfaceName(Head(order)),
                                     networks[Head(order)])
         IN  ConfigureEachInterface(r.b, networks, Tail(order),
                                    IF r.err THEN failed \cup {Head(order)} ELSE failed,
                                    ran \o r.ran)

(* netsh (Windows).  The adapter's IP settings: how the address is got,    *)
(* the static address, mask and gateway, how DNS is got, the DNS servers.  *)

NetshAdapter(name, source, ip, mask, gateway, dnsSource, dns) ==
    [name |-> name, source |-> source, ip |-> ip, mask |-> mask, gateway |-> gateway,
     dnsSource |-> dnsSource, dns |-> dns]

\* the list s with v put at place k ("1", "2", ...), or at its end
InsertAt(s, k, v) ==
    LET at == CHOOSE i \in 1..(Len(s) + 1) : ToString(i) = k \/ i = Len(s) + 1
    IN  SubSeq(s, 1, at - 1) \o <<v>> \o SubSeq(s, at, Len(s))

\* netsh interface ip set address | set dns | add dns
NetshExec(b, c) ==
    CASE c.verb = "set address" /\ c.val[1] = "dhcp" ->
           [b EXCEPT !.netsh.source = "dhcp", !.netsh.ip = "", !.netsh.mask = "",
                     !.netsh.gateway = ""]
      [] c.verb = "set address" /\ c.val[1] = "static" ->
           [b EXCEPT !.netsh.source = "static", !.netsh.ip = c.val[2],
                     !.netsh.mask = c.val[3], !.netsh.gateway = c.val[4]]
      [] c.verb = "set dns" /\ c.val[1] = "dhcp" ->
           [b EXCEPT !.netsh.dnsSource = "dhcp", !.netsh.dns = <<>>]
      [] c.verb = "set dns" /\ c.val[1] = "static" ->
           [b EXCEPT !.netsh.dnsSource = "static", !.netsh.dns = <<c.val[2]>>]
      [] c.verb = "add dns" ->
           [b EXCEPT !.netsh.dns = InsertAt(@, c.val[2], c.val[1])]

\* part_003: each command is run in turn and the first failure is returned;
\* failAt is the invocation the tool fails at (0: none fails)
RECURSIVE RunNetsh(_, _, _, _)
RunNetsh(b, commands, failAt, ran) ==
    IF commands = <<>> THEN Result(b, FALSE, ran)
    ELSE IF failAt = Len(ran) + 1 THEN Result(b, TRUE, Append(ran, Head(commands)))
    ELSE RunNetsh(NetshExec(b, Head(commands)), Tail(commands), failAt,
                  Append(ran, Head(commands)))

\* windows.configureDHCP
configureDHCP(b, adapterName, failAt) ==
    RunNetsh(b,
        << Command("netsh", "set address", adapterName, "", <<"dhcp">>),
           Command("netsh", "set dns", adapterName, "", <<"dhcp">>) >>,
        failAt, <<>>)

\* commands that count the added DNS servers from 1
StaticNetshCommandsFromOne(adapterName, cfg, p) ==
    << Command("netsh", "set address", adapterName, "",
               <<"static", p.ip, p.mask, cfg.Gateway>>) >>
    \o (IF Len(cfg.DNS) > 0
        THEN <<Command("netsh", "set dns", adapterName, "", <<"static", cfg.DNS[1]>>)>>
             \o [i \in 1..(Len(cfg.DNS) - 1) |->
                    Command("netsh", "add dns", adapterName, "index",
                            <<cfg.DNS[i + 1], ToString(i)>>)]
        ELSE <<>>)

\* the commands windows.configureStatic runs (part_003:55-77)
StaticNetshCommands(adapterName, cfg, p) ==
    << Command("netsh", "set address", adapterName, "",
               <<"static", p.ip, p.mask, cfg.Gateway>>) >>
    \o (IF Len(cfg.DNS) > 0
        THEN <<Command("netsh", "set dns", adapterName, "", <<"static", cfg.DNS[1]>>)>>
             \o [i \in 1..(Len(cfg.DNS) - 1) |->
                    Command("netsh", "add dns", adapterName, "index",
                            <<cfg.DNS[i + 1], ToString(i + 1)>>)]
        ELSE <<>>)

\* windows.configureStatic
configureStatic(b, adapterName, cfg, failAt) ==
    LET p == ParseCIDR(cfg.Address)
    IN  IF p.err THEN Result(b, TRUE, <<>>)
        ELSE RunNetsh(b, StaticNetshCommands(adapterName, cfg, p), failAt, <<>>)

\* windows.ConfigureNetwork; getPrimaryAdapterName fails on a host without
\* an adapter
WindowsConfigureNetwork(b, cfg, failAt) ==
    IF b.netsh.name = <<>> THEN Result(b, TRUE, <<>>)
    ELSE IF cfg.DHCP THEN configureDHCP(b, b.netsh.name, failAt)
    ELSE configureStatic(b, b.netsh.name, cfg, failAt)

(* NetworkManager.  The connection profiles in the order nmcli lists them. *)
(* A property's value is a text: the sequence of the pieces it was         *)
(* formatted from ("" is <<>>).                                            *)

Text(s) == IF s = "" THEN <<>> ELSE <<s>>

\* strings.Join
RECURSIVE Join(_, _)
Join(parts, sep) ==
    IF parts = <<>> THEN <<>>
    ELSE IF Len(parts) = 1 THEN Head(parts)
    ELSE Head(parts) \o <<sep>> \o Join(Tail(parts), sep)

NMProfile(name, ifname, type, active, method, addresses, gateway, dns, routes) ==
    [name |-> name, ifname |-> ifname, type |-> type, active |-> active,
     method |-> method, addresses |-> addresses, gateway |-> gateway, dns |-> dns,
     routes |-> routes]

\* the DEVICE column of nmcli connection show
DeviceOf(profile) == IF profile.active THEN profile.ifname ELSE <<>>

\* the first profile of the listing that satisfies Test, or 0
FirstProfile(nm, Test(_)) ==
    IF \E i \in 1..Len(nm) : Test(nm[i])
    THEN CHOOSE i \in 1..Len(nm) : Test(nm[i]) /\ \A j \in 1..(i - 1) : ~Test(nm[j])
    ELSE 0

\* what a lookup of a connection gives: the backends, an error or the
\* connection's name, the commands run
Found(b, err, conn, ran) == [b |-> b, err |-> err, conn |-> conn, ran |-> ran]

ListCommand   == Command("nmcli", "show", <<>>, "NAME,DEVICE", <<>>)
ActiveCommand == Command("nmcli", "show --active", <<>>, "NAME,TYPE", <<>>)
AddCommand(connName, ifaceName) == Command("nmcli", "add", connName, "ifname", ifaceName)

\* linux.getNMConnectionForInterface; auto: NetworkManager activates the
\* profile it is asked to add (autoconnect) before the next listing
getNMConnectionForInterface(b, ifaceName, failAt, auto) ==
    LET byDevice == FirstProfile(b.nm, LAMBDA p : DeviceOf(p) = ifaceName)
        byName   == FirstProfile(b.nm, LAMBDA p : p.name = ifaceName)
        connName == <<"cyber-range-">> \o ifaceName
    IN  IF failAt = 1 THEN Found(b, TRUE, <<>>, <<ListCommand>>)
        ELSE IF byDevice # 0 THEN Found(b, FALSE, b.nm[byDevice].name, <<ListCommand>>)
        ELSE IF byName # 0 THEN Found(b, FALSE, b.nm[byName].name, <<ListCommand>>)
        ELSE IF failAt = 2
             THEN Found(b, TRUE, <<>>, <<ListCommand, AddCommand(connName, ifaceName)>>)
        ELSE Found([b EXCEPT !.nm = Append(@, NMProfile(connName, ifaceName,
                                      "802-3-ethernet", auto, <<"auto">>,
                                      <<>>, <<>>, <<>>, <<>>))],
                   FALSE, connName, <<ListCommand, AddCommand(connName, ifaceName)>>)

\* linux.getNMConnectionName
getNMConnectionName(b, failAt) ==
    LET ethernet == FirstProfile(b.nm, LAMBDA p : p.active /\ p.type = "802-3-ethernet")
        first    == FirstProfile(b.nm, LAMBDA p : p.active)
    IN  IF failAt = 1 THEN Found(b, TRUE, <<>>, <<ActiveCommand>>)
        ELSE IF ethernet # 0 THEN Found(b, FALSE, b.nm[ethernet].name, <<ActiveCommand>>)
        ELSE IF first # 0 /\ b.nm[first].name # <<>>
             THEN Found(b, FALSE, b.nm[first].name, <<ActiveCommand>>)
        ELSE Found(b, TRUE, <<>>, <<ActiveCommand>>)

\* nmcli connection modify <target> <key> <val>, or nmcli connection up
\* <target>, on the first profile of that name
NmExec(b, c) ==
    LET nm == b.nm
        i  == FirstProfile(nm, LAMBDA p : p.name = c.target)
    IN  IF i = 0 THEN b
        ELSE IF c.verb = "up"
        THEN [b EXCEPT !.nm = [j \in 1..Len(nm) |->
                 IF j = i THEN [nm[j] EXCEPT !.active = TRUE]
                 ELSE IF nm[j].ifname = nm[i].ifname THEN [nm[j] EXCEPT !.active = FALSE]
                 ELSE nm[j]]]
        ELSE [b EXCEPT !.nm[i][c.key] = c.val]

\* one invocation of nmcli: the settings it makes, and whether its error is
\* ignored
NmCall(sets, ignore) == [sets |-> sets, ignore |-> ignore]

RECURSIVE NmExecAll(_, _)
NmExecAll(b, sets) ==
    IF sets = <<>> THEN b ELSE NmExecAll(NmExec(b, Head(sets)), Tail(sets))

\* linux/network.go:100-164: the invocations in turn; made counts the
\* invocations so far and failAt is the one nmcli fails at (0: none)
RECURSIVE RunNmcli(_, _, _, _, _)
RunNmcli(b, calls, failAt, made, ran) ==
    IF calls = <<>> THEN Result(b, FALSE, ran)
    ELSE LET c == Head(calls)
         IN  IF failAt = made + 1
             THEN IF c.ignore
                  THEN RunNmcli(b, Tail(calls), failAt, made + 1, ran \o c.sets)
                  ELSE Result(b, TRUE, ran \o c.sets)
             ELSE RunNmcli(NmExecAll(b, c.sets), Tail(calls), failAt, made + 1,
                           ran \o c.sets)

Modify(connName, key, val) == Command("nmcli", "modify", connName, key, val)

\* linux/network.go:100-139: the modify call for DHCP or for a static address
AddressCall(connName, cfg, p) ==
    IF cfg.DHCP
    THEN NmCall(<< Modify(connName, "method", <<"auto">>),
                   Modify(connName, "addresses", <<>>),
                   Modify(connName, "gateway", <<>>),
                   Modify(connName, "dns", <<>>) >>, FALSE)
    ELSE NmCall(<< Modify(connName, "method", <<"manual">>),
                   Modify(connName, "addresses", <<p.ip, "/", ToString(p.ones)>>) >>
                \o (IF cfg.Gateway # ""
                    THEN <<Modify(connName, "gateway", <<cfg.Gateway>>)>> ELSE <<>>)
                \o (IF Len(cfg.DNS) > 0
                    THEN <<Modify(connName, "dns",
                                  Join([i \in 1..Len(cfg.DNS) |-> <<cfg.DNS[i]>>], ","))>>
                    ELSE <<>>),
                FALSE)

\* linux/network.go:142-158: clear the routes (error ignored), then set them
RouteCalls(connName, cfg) ==
    IF Len(cfg.Routes) > 0
    THEN << NmCall(<<Modify(connName, "routes", <<>>)>>, TRUE),
            NmCall(<<Modify(connName, "routes",
                            Join([i \in 1..Len(cfg.Routes) |->
                                     <<cfg.Routes[i].To, " ", cfg.Routes[i].Via>>],
                                 ", "))>>, FALSE) >>
    ELSE <<>>

UpCall(connName) == NmCall(<<Command("nmcli", "up", connName, "", <<>>)>>, FALSE)

\* linux.configureNetworkManager
configureNetworkManager(b, ifaceName, cfg, failAt, auto) ==
    LET f == IF ifaceName = <<>> THEN getNMConnectionName(b, failAt)
             ELSE getNMConnectionForInterface(b, ifaceName, failAt, auto)
        p == ParseCIDR(cfg.Address)
    IN  IF f.err THEN Result(f.b, TRUE, f.ran)
        ELSE IF ~cfg.DHCP /\ p.err THEN Result(f.b, TRUE, f.ran)
        ELSE RunNmcli(f.b,
                      <<AddressCall(f.conn, cfg, p)>> \o RouteCalls(f.conn, cfg)
                          \o <<UpCall(f.conn)>>,
                      failAt, Len(f.ran), f.ran)

\* linux.configureNetworkManagerAll: the first failure ends the loop.
\* failAt gives, for each interface, the invocation nmcli fails at.
RECURSIVE configureNetworkManagerAll(_, _, _, _, _, _)
configureNetworkManagerAll(b, networks, order, failAt, auto, ran) ==
    IF order = <<>> THEN Result(b, FALSE, ran)
    ELSE LET r == configureNetworkManager(b, Head(order), networks[Head(order)],
                                          failAt[Head(order)], auto)
         IN  IF r.err THEN Result(r.b, TRUE, ran \o r.ran)
             ELSE configureNetworkManagerAll(r.b, networks, Tail(order), failAt, auto,
                                             ran \o r.ran)

(* Netplan and ifupdown.  Each writes one file, a sequence of stanzas in   *)
(* the order of the map range, and then has the system take it up.         *)

File(exists, stanzas) == [exists |-> exists, stanzas |-> stanzas]

WriteCommand(path) == Command("os", "WriteFile", <<path>>, "", <<>>)

\* linux/network.go:267-309: the stanza of one interface
NetplanStanza(ifaceName, cfg) ==
    IF cfg.DHCP
    THEN [name |-> ifaceName, dhcp4 |-> TRUE, addresses |-> <<>>,
          routes |-> cfg.Routes, nameservers |-> <<>>]
    ELSE [name |-> ifaceName, dhcp4 |-> FALSE,
          addresses |-> IF cfg.Address # "" THEN <<cfg.Address>> ELSE <<>>,
          routes |-> (IF cfg.Gateway # "" THEN <<RouteTo("default", cfg.Gateway)>>
                      ELSE <<>>) \o cfg.Routes,
          nameservers |-> cfg.DNS]

\* a document built with no validation of the addresses
NetplanRejectsUnchecked(cfg) == FALSE

\* linux/network.go:278-286: the address of a static interface is validated
\* when it is not empty
NetplanRejects(cfg) == ~cfg.DHCP /\ cfg.Address # "" /\ ParseCIDR(cfg.Address).err

\* what building a file's content gives: an error, or the stanzas
Content(err, stanzas) == [err |-> err, stanzas |-> stanzas]

\* linux/network.go:266-310: the content, or an error at the first interface
\* with an invalid address
RECURSIVE NetplanContent(_, _, _)
NetplanContent(networks, order, stanzas) ==
    IF order = <<>> THEN Content(FALSE, stanzas)
    ELSE IF NetplanRejects(networks[Head(order)]) THEN Content(TRUE, stanzas)
    ELSE NetplanContent(networks, Tail(order),
                        Append(stanzas, NetplanStanza(Head(order), networks[Head(order)])))

NetplanPath == "/etc/netplan/99-cyber-range.yaml"
NetplanApply == Command("netplan", "apply", <<>>, "", <<>>)

\* linux.configureNetplanAll; failAt: 1 the write fails, 2 netplan apply fails
configureNetplanAll(b, networks, order, failAt) ==
    LET content == NetplanContent(networks, order, <<>>)
        written == [b EXCEPT !.netplan = File(TRUE, content.stanzas)]
    IN  IF content.err THEN Result(b, TRUE, <<>>)
        ELSE IF failAt = 1 THEN Result(b, TRUE, <<WriteCommand(NetplanPath)>>)
        ELSE IF failAt = 2
             THEN Result(written, TRUE, <<WriteCommand(NetplanPath), NetplanApply>>)
        ELSE Result([written EXCEPT !.netplanLive = content.stanzas], FALSE,
                    <<WriteCommand(NetplanPath), NetplanApply>>)

\* linux.configureNetplanSingle; getPrimaryInterface fails on a host with no
\* suitable interface
configureNetplanSingle(b, cfg, failAt) ==
    IF b.primary = <<>> THEN Result(b, TRUE, <<>>)
    ELSE configureNetplanAll(b, Cfg(b.primary, cfg), <<b.primary>>, failAt)

\* linux/network.go:346-375: the stanza of one interface
IfupdownStanza(ifaceName, cfg, p) ==
    [name    |-> ifaceName,
     method  |-> IF cfg.DHCP THEN "dhcp" ELSE "static",
     address |-> IF cfg.DHCP THEN "" ELSE p.ip,
     netmask |-> IF cfg.DHCP THEN "" ELSE p.mask,
     gateway |-> IF cfg.DHCP THEN "" ELSE cfg.Gateway,
     dns     |-> IF cfg.DHCP THEN <<>>
                 ELSE Join([i \in 1..Len(cfg.DNS) |-> <<cfg.DNS[i]>>], " "),
     hooks   |-> [i \in 1..(2 * Len(cfg.Routes)) |->
                    IF i % 2 = 1
                    THEN <<"post-up", "add", cfg.Routes[(i + 1) \div 2].To,
                           cfg.Routes[(i + 1) \div 2].Via>>
                    ELSE <<"pre-down", "del", cfg.Routes[i \div 2].To,
                           cfg.Routes[i \div 2].Via>>]]

\* linux/network.go:345-376: the content, or an error at the first static
\* interface whose address does not parse
RECURSIVE IfupdownContent(_, _, _)
IfupdownContent(networks, order, stanzas) ==
    IF order = <<>> THEN Content(FALSE, stanzas)
    ELSE LET cfg == networks[Head(order)]
             p   == ParseCIDR(cfg.Address)
         IN  IF ~cfg.DHCP /\ p.err THEN Content(TRUE, stanzas)
             ELSE IfupdownContent(networks, Tail(order),
                                  Append(stanzas, IfupdownStanza(Head(order), cfg, p)))

IfupdownPath == "/etc/network/interfaces.d/cyber-range"
MkdirCommand == Command("os", "MkdirAll", <<"/etc/network/interfaces.d">>, "", <<>>)
RestartNetworking == Command("systemctl", "restart", <<"networking">>, "", <<>>)

\* linux/network.go:392-398: ifdown and ifup of each interface
Fallback(order) ==
    [i \in 1..(2 * Len(order)) |->
        IF i % 2 = 1 THEN Command("ifdown", "", order[(i + 1) \div 2], "", <<>>)
        ELSE Command("ifup", "", order[i \div 2], "", <<>>)]

\* linux.configureIfupdownAll; failAt: 1 MkdirAll fails, 2 the write fails,
\* 3 the restart of networking fails.  order is the order of the first range
\* and also of the fallback's range.
configureIfupdownAll(b, networks, order, failAt) ==
    LET content == IfupdownContent(networks, order, <<>>)
        written == [b EXCEPT !.ifupdown = File(TRUE, content.stanzas)]
    IN  IF content.err THEN Result(b, TRUE, <<>>)
        ELSE IF failAt = 1 THEN Result(b, TRUE, <<MkdirCommand>>)
        ELSE IF failAt = 2 THEN Result(b, TRUE, <<MkdirCommand, WriteCommand(IfupdownPath)>>)
        ELSE IF failAt = 3
             THEN Result(written, FALSE,
                         <<MkdirCommand, WriteCommand(IfupdownPath), RestartNetworking>>
                         \o Fallback(order))
        ELSE Result(written, FALSE,
                    <<MkdirCommand, WriteCommand(IfupdownPath), RestartNetworking>>)

\* linux.configureIfupdownSingle
configureIfupdownSingle(b, cfg, failAt) ==
    IF b.primary = <<>> THEN Result(b, TRUE, <<>>)
    ELSE configureIfupdownAll(b, Cfg(b.primary, cfg), <<b.primary>>, failAt)

\* linux.detectNetworkMethod
detectNetworkMethodNetplanFirst(pr) ==
    IF pr.netplanDir THEN "Netplan"
    ELSE IF pr.nmcli /\ pr.nmActive THEN "NetworkManager"
    ELSE IF pr.interfacesFile THEN "ifupdown"
    ELSE "unknown"

detectNetworkMethod(pr) ==
    IF pr.nmcli /\ pr.nmActive THEN "NetworkManager"
    ELSE IF pr.netplanDir THEN "Netplan"
    ELSE IF pr.interfacesFile THEN "ifupdown"
    ELSE "unknown"

\* linux.ConfigureAllNetworks; fail.nmcli gives for each interface the
\* invocation nmcli fails at, fail.file the step a file backend fails at
ConfigureAllNetworks(b, pr, networks, order, fail) ==
    LET method == detectNetworkMethod(pr)
    IN  CASE method = "NetworkManager" ->
               configureNetworkManagerAll(b, networks, order, fail.nmcli, fail.auto, <<>>)
          [] method = "Netplan"  -> configureNetplanAll(b, networks, order, fail.file)
          [] method = "ifupdown" -> configureIfupdownAll(b, networks, order, fail.file)
          [] OTHER -> Result(b, TRUE, <<>>)

\* linux.ConfigureNetwork
LinuxConfigureNetwork(b, pr, cfg, failAt) ==
    LET method == detectNetworkMethod(pr)
    IN  CASE method = "NetworkManager" -> configureNetworkManager(b, <<>>, cfg, failAt, FALSE)
          [] method = "Netplan"  -> configureNetplanSingle(b, cfg, failAt)
          [] method = "ifupdown" -> configureIfupdownSingle(b, cfg, failAt)
          [] OTHER -> Result(b, TRUE, <<>>)

(* The backends of a host, and the hosts the model starts from. *)

NoFile == File(FALSE, <<>>)
NoAdapter == NetshAdapter(<<>>, "dhcp", "", "", "", "dhcp", <<>>)

Backends(uci, netsh, nm, netplan, ifupdown, primary) ==
    [uci |-> uci, uciSaved |-> uci, netsh |-> netsh, nm |-> nm,
     netplan |-> netplan, netplanLive |-> netplan.stanzas, ifupdown |-> ifupdown,
     primary |-> primary]

NoSections == [s \in {} |-> UciSection("", "", "", "", <<>>)]

BackendOff == Backends(NoSections, NoAdapter, <<>>, NoFile, NoFile, <<>>)

\* OpenWrt hosts: lan static with a gateway and two DNS servers and wan on
\* DHCP; a lan section with nothing but its protocol; no section at all
UciPriors ==
    { Cfg(Lan, UciSection("static", "192.168.9.1", "255.255.255.0", "192.168.9.254",
                          <<"9.9.9.9", "1.1.1.1">>))
        @@ Cfg(Wan, UciSection("dhcp", "", "", "", <<>>)),
      Cfg(Lan, UciSection("dhcp", "", "", "", <<>>)),
      NoSections }

\* Windows hosts: no adapter, an adapter on DHCP, an adapter with a static
\* address and a DNS server
NetshPriors ==
    { NoAdapter,
      NetshAdapter(<<"Ethernet">>, "dhcp", "", "", "", "dhcp", <<>>),
      NetshAdapter(<<"Ethernet">>, "static", "192.168.9.1", "255.255.255.0",
                   "192.168.9.254", "static", <<"9.9.9.9">>) }

WiredProfile ==
    NMProfile(<<"Wired connection 1">>, Eth0, "802-3-ethernet", TRUE, <<"manual">>,
              <<"192.168.9.1", "/", "24">>, <<"192.168.9.254">>, <<"9.9.9.9">>,
              <<"10.9.0.0/16", " ", "192.168.9.2">>)
IdleProfile ==
    NMProfile(Eth1, Eth1, "802-3-ethernet", FALSE, <<"auto">>, <<>>, <<>>, <<>>, <<>>)
BridgeProfile ==
    NMProfile(<<"br0">>, <<"b", "r", "0">>, "bridge", TRUE, <<"auto">>, <<>>, <<>>,
              <<>>, <<>>)

OldNetplan  == File(TRUE, <<NetplanStanza(Eth0, CfgDHCP)>>)
OldIfupdown == File(TRUE, <<IfupdownStanza(Eth0, CfgDHCP, ParseCIDR(""))>>)

\* Linux hosts: a fresh one; one with profiles and files from an earlier
\* configuration; one with no suitable primary interface
LinuxFresh == Backends(NoSections, NoAdapter, <<>>, NoFile, NoFile, Eth0)
LinuxUsed  == Backends(NoSections, NoAdapter, <<WiredProfile, IdleProfile>>, OldNetplan,
                       OldIfupdown, Eth0)
LinuxBare  == Backends(NoSections, NoAdapter, <<BridgeProfile>>, NoFile, OldIfupdown, <<>>)

Probes(nmcli, nmActive, netplanDir, interfacesFile) ==
    [nmcli |-> nmcli, nmActive |-> nmActive, netplanDir |-> netplanDir,
     interfacesFile |-> interfacesFile]
NoProbes  == Probes(FALSE, FALSE, FALSE, FALSE)
AllProbes == [nmcli : BOOLEAN, nmActive : BOOLEAN, netplanDir : BOOLEAN,
              interfacesFile : BOOLEAN]

\* probes that make detectNetworkMethod find each method in turn
MethodProbes ==
    { Probes(TRUE, TRUE, TRUE, TRUE), Probes(TRUE, FALSE, TRUE, TRUE),
      Probes(FALSE, TRUE, FALSE, TRUE), NoProbes }

\* the hosts of a platform: what the probes find, and the backends
Hosts(p) ==
    CASE p = "linux"   -> (AllProbes \X {LinuxUsed}) \cup
                          (MethodProbes \X {LinuxFresh, LinuxBare})
      [] p = "openwrt" -> {NoProbes} \X {Backends(u, NoAdapter, <<>>, NoFile, NoFile, <<>>) :
                                         u \in UciPriors}
      [] p = "windows" -> {NoProbes} \X {Backends(NoSections, a, <<>>, NoFile, NoFile, <<>>) :
                                         a \in NetshPriors}

\* the application in hand: what was applied to what, the failures the
\* tools were to meet, the backends before it, how many times it was made,
\* the backends after the first time and whether that failed, and the last
\* result
Application(kind, target, cfg, networks, order, fail, before, r) ==
    [kind |-> kind, target |-> target, cfg |-> cfg, networks |-> networks,
     order |-> order, fail |-> fail, before |-> before, times |-> 1, once |-> r.b,
     first |-> r.err, err |-> r.err, failed |-> r.failed, ran |-> r.ran]

NoFail == [file |-> 0, nmcli |-> [n \in {} |-> 0], auto |-> FALSE]
NoOp == Application("none", <<>>, DefaultNetwork, EmptyNetworks, <<>>, NoFail, BackendOff,
                    Result(BackendOff, FALSE, <<>>))

\* a response of the server, as the client decodes it (config.ConfigResponse)
Served(name, network, networks) ==
    [Hostname |-> name, Network |-> network, Networks |-> networks]
NoServed == Served("", DefaultNetwork, EmptyNetworks)

(* forge.  subnets.json is missing, unreadable ("bad": ReadFile or         *)
(* Unmarshal fails) or holds the allocations in file order.                *)

\* part_001:116  the last octet AllocateSubnet hands out
LastOctet == 254

\* forge.Allocation
Allocation(project, octet, at) ==
    [Project |-> project, SubnetOctet |-> octet, AllocatedAt |-> at]

MissingFile == [kind |-> "missing", allocations |-> <<>>]
BadFile     == [kind |-> "bad", allocations |-> <<>>]
OkFile(allocations) == [kind |-> "ok", allocations |-> allocations]

\* forge.readSubnetsFile: a missing file reads as no allocations
readSubnetsFile(file) ==
    [err |-> file.kind = "bad",
     data |-> IF file.kind = "ok" THEN file.allocations ELSE <<>>]

\* forge.writeSubnetsFile: the file after the call
writeSubnetsFile(file, data, writeOk) == IF writeOk THEN OkFile(data) ELSE file

\* a search that finds no project
FindProjectNever(allocations, projectName) == 0

\* part_001:85-89, 103-107: the first allocation of the project, 0 if none
FindProject(allocations, projectName) ==
    LET held == {i \in 1..Len(allocations) : allocations[i].Project = projectName}
    IN  IF held = {} THEN 0 ELSE CHOOSE i \in held : \A j \in held : i <= j

\* part_001:110-113
UsedOctets(allocations) == {allocations[i].SubnetOctet : i \in 1..Len(allocations)}

\* the octet after the highest one in use
NextOctetAfterLast(allocations) ==
    LET used == UsedOctets(allocations) \cup {0}
    IN  (CHOOSE o \in used : \A u \in used : u <= o) + 1

\* part_001:115-121: the first octet from 1 that is not in use, LastOctet + 1
\* when all are
NextOctet(allocations) ==
    LET free == (1..LastOctet) \ UsedOctets(allocations)
    IN  IF free = {} THEN LastOctet + 1
        ELSE CHOOSE o \in free : \A u \in free : o <= u

\* the allocations are in ascending order of octet
Ascending(allocations) ==
    \A i \in 1..(Len(allocations) - 1) :
        allocations[i].SubnetOctet < allocations[i + 1].SubnetOctet

\* the allocation a put at its place among ascending allocations
Inserted(allocations, a) ==
    LET k == Cardinality({i \in 1..Len(allocations) :
                            allocations[i].SubnetOctet < a.SubnetOctet})
    IN  SubSeq(allocations, 1, k) \o <<a>> \o SubSeq(allocations, k + 1, Len(allocations))

\* part_001:135-137  sort.Slice by octet, after the append; the octets of
\* one file differ.  A list that was ascending before the append only has
\* its last entry moved.
SortByOctet(allocations) ==
    LET n == Len(allocations)
        rank == [i \in 1..n |->
                   Cardinality({j \in 1..n :
                       allocations[j].SubnetOctet <= allocations[i].SubnetOctet})]
    IN  IF n > 0 /\ Ascending(SubSeq(allocations, 1, n - 1))
        THEN Inserted(SubSeq(allocations, 1, n - 1), allocations[n])
        ELSE [k \in 1..n |-> allocations[CHOOSE i \in 1..n : rank[i] = k]]

\* part_001:102-137: what AllocateSubnet does with the data it read, up to
\* the write
AllocatePlan(data, projectName, at) ==
    LET i == FindProject(data, projectName)
        nextOctet == NextOctet(data)
    IN  IF i # 0
        THEN [write |-> FALSE, octet |-> data[i].SubnetOctet, err |-> FALSE, data |-> data]
        ELSE IF nextOctet > LastOctet
        THEN [write |-> FALSE, octet |-> 0, err |-> TRUE, data |-> data]
        ELSE [write |-> TRUE, octet |-> nextOctet, err |-> FALSE,
              data |-> SortByOctet(Append(data, Allocation(projectName, nextOctet, at)))]

\* part_001:153-168: what ReleaseSubnet does with the data it read
ReleasePlan(data, projectName) ==
    LET held == {i \in 1..Len(data) : data[i].Project = projectName}
        releasedOctet == IF held = {} THEN 0
                         ELSE data[CHOOSE i \in held : \A j \in held : j <= i].SubnetOctet
    IN  IF releasedOctet = 0
        THEN [write |-> FALSE, octet |-> 0, err |-> TRUE, data |-> data]
        ELSE [write |-> TRUE, octet |-> releasedOctet, err |-> FALSE,
              data |-> SelectSeq(data, LAMBDA a : a.Project # projectName)]

\* a call of the two functions: read, plan, write
Call(file, plan(_), writeOk) ==
    LET rd == readSubnetsFile(file)
    IN  IF rd.err THEN [file |-> file, octet |-> 0, err |-> TRUE]
        ELSE LET pl == plan(rd.data)
             IN  IF ~pl.write THEN [file |-> file, octet |-> pl.octet, err |-> pl.err]
                 ELSE IF ~writeOk THEN [file |-> file, octet |-> 0, err |-> TRUE]
                 ELSE [file |-> OkFile(pl.data), octet |-> pl.octet, err |-> FALSE]

\* forge.AllocateSubnet, run to completion
AllocateSubnet(file, projectName, at, writeOk) ==
    Call(file, LAMBDA data : AllocatePlan(data, projectName, at), writeOk)

\* forge.ReleaseSubnet, run to completion
ReleaseSubnet(file, projectName, writeOk) ==
    Call(file, LAMBDA data : ReleasePlan(data, projectName), writeOk)

\* forge.GetProjectSubnet
GetProjectSubnet(file, projectName) ==
    LET rd == readSubnetsFile(file)
        i == FindProject(rd.data, projectName)
    IN  IF rd.err THEN [octet |-> 0, err |-> TRUE]
        ELSE [octet |-> IF i = 0 THEN 0 ELSE rd.data[i].SubnetOctet, err |-> FALSE]

\* the forge invocations
Invocations == {"f1", "f2"}

\* what an invocation ran, on which project, against which file; what it
\* read (data, octet to hand out), what it did and what it returned
Invocation(cmd, project, pc, before, data, octet, err, did, exit) ==
    [cmd |-> cmd, project |-> project, pc |-> pc, before |-> before, data |-> data,
     octet |-> octet, err |-> err, did |-> did, exit |-> exit]

NoInvocation == Invocation("none", "", "idle", MissingFile, <<>>, 0, FALSE, <<>>, 0)

\* no forge runs
ForgeOff ==
    /\ subnetsFile = MissingFile
    /\ forge = [f \in Invocations |-> NoInvocation]

\* a host no client runs on
HostOff ==
    /\ retryDelay = RetryDelay
    /\ platform = "linux"
    /\ probes = NoProbes
    /\ backend = BackendOff
    /\ op = NoOp
    /\ applies = 0
    /\ marker = FALSE
    /\ hostname = ""
    /\ served = NoServed
    /\ noDelay = FALSE
    /\ ForgeOff
    /\ effects = <<>>
    /\ logFile = "closed"

-----------------------------------------------------------------------------
(* The server's state. *)

Resolvers == {"r1", "r2"}
Reloaders == {"l1", "l2"}

\* one backing array for s.instances, one being filled by a reload, one per
\* record pointer a resolve still holds
ArrayIds == 1..(2 + Cardinality(Resolvers))

\* the records s.instances holds
Snapshot == heap[instances]

\* the allocator: an array no live slice or pointer refers to
NewArray(live) == CHOOSE a \in ArrayIds \ live : \A b \in ArrayIds \ live : a <= b

NoPtr  == [arr |-> 0, idx |-> 0]
NoReq  == [kind |-> "none", method |-> "", mac |-> <<>>, data |-> Unreadable]
NoResp == [status |-> 0, hostname |-> "", network |-> DefaultNetwork,
           networks |-> EmptyNetworks, count |-> 0, idle |-> 0]

\* http.Error(w, ..., status): a response with no configuration in it
ErrorResp(status) == [NoResp EXCEPT !.status = status]

\* server.go:131-135, the ConfigResponse for a matched record
ConfigResp(name, primary, networks) ==
    [NoResp EXCEPT !.status = 200, !.hostname = name, !.network = primary,
                   !.networks = networks]

\* NewServer: the first load has succeeded with one of the inventories invs
ServerInit(invs) ==
    /\ \E recs \in invs : heap = [a \in {1} |-> recs]
    /\ instances = 1
    /\ lastActivity = 0
    /\ now = 0
    /\ req = NoReq
    /\ resp = NoResp
    /\ mu = [w |-> "none", r |-> {}]
    /\ rpc = [t \in Resolvers |-> "idle"]
    /\ rmac = [t \in Resolvers |-> <<>>]
    /\ rptr = [t \in Resolvers |-> NoPtr]
    /\ rnets = [t \in Resolvers |-> EmptyNetworks]
    /\ rresp = [t \in Resolvers |-> NoResp]
    /\ rsnap = [t \in Resolvers |-> <<>>]
    /\ lpc = [t \in Reloaders |-> "idle"]
    /\ ldata = [t \in Reloaders |-> Unreadable]
    /\ lnew = [t \in Reloaders |-> 0]
    /\ lresp = [t \in Reloaders |-> NoResp]

\* cmd/server main, lines 70-114: the channel made, the goroutines started
MainInit(timeouts) ==
    /\ idleTimeout \in timeouts
    /\ shutdown = "open"
    /\ closers = {}
    /\ panicked = FALSE
    /\ tickerC = FALSE
    /\ sigChan = FALSE
    /\ monPc = IF idleTimeout > 0 THEN "select" ELSE "off"
    /\ monLa = 0
    /\ sigPc = "select"
    /\ mainPc = "wait"

\* the client about to call requestConfigWithRetry with a budget from budgets
ClientInit(budgets) ==
    /\ maxRetries \in budgets
    /\ cpc = "loop"
    /\ ci = 0
    /\ clog = <<>>
    /\ cret = "none"
    /\ exitCode = 0
    /\ HostOff

Init == ServerInit(Inventories) /\ MainInit({0}) /\ ClientInit({0})

-----------------------------------------------------------------------------
(* The matcher. *)

\* server.go:154-160, the inner loop over one record's config keys
RecordHasMAC(inst, mac) ==
    \E key \in DOMAIN inst.Config :
        ContainsHwaddr(key) /\ EqualFold(inst.Config[key], mac)

\* server.go:150-162, the outer loop from index i on; 0 stands for nil
RECURSIVE findFrom(_, _, _)
findFrom(insts, mac, i) ==
    IF i > Len(insts) THEN 0
    ELSE IF RecordHasMAC(insts[i], mac) THEN i
    ELSE findFrom(insts, mac, i + 1)

\* findInstanceByMAC returning the last match instead of the first
findLastInstanceByMAC(insts, mac) ==
    LET M == {i \in 1..Len(insts) : RecordHasMAC(insts[i], mac)}
    IN IF M = {} THEN 0 ELSE CHOOSE i \in M : \A j \in M : j <= i

\* Server.findInstanceByMAC: the index of the record returned, 0 for nil
findInstanceByMAC(insts, mac) == findFrom(insts, mac, 1)

\* server.go:99-106: the record a mac parameter resolves to in a snapshot
Resolve(insts, mac) == findInstanceByMAC(insts, NormalizeMAC(mac))

\* a load that checks the error of ReadFile and not that of Unmarshal
loadFailsOnReadOnly(data) == data.kind = "unreadable"

\* Server.loadInstances, lines 48-56: the error of ReadFile or Unmarshal
loadFails(data) == data.kind # "ok"

\* a reload that merges the file into the records already held
NewSnapshotAppend(old, data) == old \o data.records

\* Server.loadInstances, lines 53-58: the records s.instances is set to
NewSnapshot(old, data) == data.records

\* Server.updateActivity
updateActivity == lastActivity' = now

-----------------------------------------------------------------------------
(* Spec: each request is handled to completion before the next.  req and   *)
(* resp hold the request in hand and its response until the connection is  *)
(* finished.                                                               *)

Idle == req = NoReq

\* HandleConfig recording activity only once the request has passed its checks
HandleConfigTouchLate(method, mac, encodeOk) ==
    LET i    == Resolve(Snapshot, mac)
        nets == parseAllNetworkConfigs(Snapshot[i])
    IN
    /\ Idle
    /\ req' = [kind |-> "config", method |-> method, mac |-> mac,
               data |-> Unreadable]
    /\ IF method # "GET" THEN resp' = ErrorResp(405) /\ UNCHANGED lastActivity
       ELSE IF mac = <<>> THEN resp' = ErrorResp(400) /\ UNCHANGED lastActivity
       ELSE IF i = 0 THEN resp' = ErrorResp(404) /\ UNCHANGED lastActivity
       ELSE /\ updateActivity
            /\ IF ~encodeOk THEN resp' = ErrorResp(500)
               ELSE \E primary \in PrimaryChoices(nets) :
                        resp' = ConfigResp(Snapshot[i].Name, primary, nets)
    /\ UNCHANGED <<heap, instances, now>>
    /\ UNCHANGED <<concVars, mainVars, clientVars>>

\* Server.HandleConfig
HandleConfig(method, mac, encodeOk) ==
    LET i    == Resolve(Snapshot, mac)
        nets == parseAllNetworkConfigs(Snapshot[i])
    IN
    /\ Idle
    /\ updateActivity
    /\ req' = [kind |-> "config", method |-> method, mac |-> mac,
               data |-> Unreadable]
    /\ IF method # "GET" THEN resp' = ErrorResp(405)
       ELSE IF mac = <<>> THEN resp' = ErrorResp(400)
       ELSE IF i = 0 THEN resp' = ErrorResp(404)
       ELSE IF ~encodeOk THEN resp' = ErrorResp(500)
       ELSE \E primary \in PrimaryChoices(nets) :
                resp' = ConfigResp(Snapshot[i].Name, primary, nets)
    /\ UNCHANGED <<heap, instances, now>>
    /\ UNCHANGED <<concVars, mainVars, clientVars>>

\* Server.HandleReload, with Server.Reload and Server.loadInstances
HandleReload(method, data) ==
    LET new == NewArray({instances}) IN
    /\ Idle
    /\ updateActivity
    /\ req' = [kind |-> "reload", method |-> method, mac |-> <<>>,
               data |-> data]
    /\ IF method # "POST"
       THEN /\ resp' = ErrorResp(405)
            /\ UNCHANGED <<heap, instances>>
       ELSE IF loadFails(data)
       THEN /\ resp' = ErrorResp(500)
            /\ UNCHANGED <<heap, instances>>
       ELSE /\ heap' = [a \in {new} |-> NewSnapshot(Snapshot, data)]
            /\ instances' = new
            /\ resp' = [NoResp EXCEPT !.status = 200, !.count = Len(heap'[new])]
    /\ UNCHANGED now
    /\ UNCHANGED <<concVars, mainVars, clientVars>>

\* Server.HandleStatus
HandleStatus(method) ==
    /\ Idle
    /\ req' = [kind |-> "status", method |-> method, mac |-> <<>>,
               data |-> Unreadable]
    /\ IF method # "GET" THEN resp' = ErrorResp(405)
       ELSE resp' = [NoResp EXCEPT !.status = 200, !.count = Len(Snapshot),
                                   !.idle = now - lastActivity]
    /\ UNCHANGED <<heap, instances, lastActivity, now>>
    /\ UNCHANGED <<concVars, mainVars, clientVars>>

\* the response has been read and the connection is closed
Finish ==
    /\ ~Idle
    /\ req' = NoReq
    /\ resp' = NoResp
    /\ UNCHANGED <<heap, instances, lastActivity, now>>
    /\ UNCHANGED <<concVars, mainVars, clientVars>>

\* the clock advances
Tick ==
    /\ Idle
    /\ now < MaxNow
    /\ now' = now + 1
    /\ UNCHANGED serverVars
    /\ UNCHANGED <<concVars, mainVars, clientVars>>

Next ==
    \/ \E method \in Methods, mac \in Macs, encodeOk \in BOOLEAN :
           HandleConfig(method, mac, encodeOk)
    \/ \E method \in Methods, data \in Files : HandleReload(method, data)
    \/ \E method \in Methods : HandleStatus(method)
    \/ Finish
    \/ Tick

Spec == Init /\ [][Next]_vars

-----------------------------------------------------------------------------
(* Properties of the server handling one request at a time (Spec). *)

\* s and t are the same string up to letter case
SameIgnoringCase(s, t) == ToLower(s) = ToLower(t)

\* the record carries the address under a key whose name contains "hwaddr"
Carries(rec, addr) ==
    \E key \in DOMAIN rec.Config :
        /\ \E j \in 1..Len(key) : key[j] = "hwaddr"
        /\ SameIgnoringCase(rec.Config[key], addr)

\* the lower-case colon form of a requested MAC
Canonical(mac) == ToLower([i \in 1..Len(mac) |-> IF mac[i] = "-" THEN ":" ELSE mac[i]])

\* the positions of the records of insts that own the requested MAC
Owners(insts, mac) == {i \in 1..Len(insts) : Carries(insts[i], Canonical(mac))}

FirstOwner(insts, mac) ==
    CHOOSE i \in Owners(insts, mac) : \A j \in Owners(insts, mac) : i <= j

ReloadInHand == req.kind = "reload" /\ req.method = "POST"
ConfigInHand == req.kind = "config" /\ req.method = "GET" /\ req.mac # <<>>

\* C1: a reload that fails because the instances file is unreadable or is not
\* valid inventory JSON leaves the snapshot exactly as it was, so every MAC
\* resolves to the same record as before, and the endpoint answers 500.
C1_FailedReloadKeepsSnapshot ==
    [][(Idle /\ req'.kind = "reload" /\ req'.method = "POST"
             /\ req'.data.kind # "ok")
       => /\ Snapshot' = Snapshot
          /\ \A mac \in Macs :
                /\ Owners(Snapshot', mac) = Owners(Snapshot, mac)
                /\ Resolve(Snapshot', mac) = Resolve(Snapshot, mac)
          /\ resp'.status = 500]_vars

\* a failed reload has been answered while a record was resolvable
C1_Witness ==
    /\ ReloadInHand
    /\ req.data.kind # "ok"
    /\ resp.status = 500
    /\ \E mac \in Macs : Resolve(Snapshot, mac) # 0

\* C2: after a successful reload of a file holding N records the snapshot is
\* exactly those N records: a MAC resolves if and only if a record of the new
\* file carries it under a hardware-address key, whatever was held before.
C2_ReloadReplacesSnapshot ==
    (ReloadInHand /\ resp.status = 200)
    => /\ req.data.kind = "ok"
       /\ Snapshot = req.data.records
       /\ resp.count = Len(req.data.records)
       /\ \A mac \in Macs :
             (Resolve(Snapshot, mac) # 0)
             <=> (\E i \in 1..Len(req.data.records) :
                     Carries(req.data.records[i], Canonical(mac)))

\* a reload has installed a one-record file, and both MACs of that record
\* resolve
C2_Witness ==
    /\ ReloadInHand
    /\ resp.status = 200
    /\ req.data.records = <<RecB>>
    /\ Resolve(Snapshot, <<"a", ":">>) # 0
    /\ Resolve(Snapshot, <<"a", "A">>) # 0
    /\ instances # 1

\* C3: a resolve returns the first record in inventory order that carries the
\* normalized MAC under a key containing "hwaddr"; with no such record the
\* answer is 404 and never some other record.
C3_FirstMatchWins ==
    ConfigInHand
    => IF Owners(Snapshot, req.mac) = {}
       THEN resp.status = 404 /\ resp.hostname = ""
       ELSE /\ resp.status \in {200, 500}
            /\ resp.status = 200
               => /\ resp.hostname = Snapshot[FirstOwner(Snapshot, req.mac)].Name
                  /\ resp.networks =
                        parseAllNetworkConfigs(Snapshot[FirstOwner(Snapshot, req.mac)])

\* two records claim the MAC and the first was returned
C3_Witness ==
    /\ ConfigInHand
    /\ Cardinality(Owners(Snapshot, req.mac)) = 2
    /\ resp.status = 200
    /\ resp.hostname = Snapshot[1].Name
    /\ Snapshot[1].Name # Snapshot[2].Name

\* C4: against one snapshot, a MAC, its upper-case form, its lower-case form
\* and its hyphen-separated form resolve to the same record or all to none.
C4_CaseAndSeparatorInsensitive ==
    ConfigInHand
    => \A form \in {ToUpper(req.mac), ToLower(req.mac), Hyphenated(req.mac)} :
          /\ Resolve(Snapshot, form) = Resolve(Snapshot, req.mac)
          /\ resp.status = 404 => Resolve(Snapshot, form) = 0
          /\ resp.status = 200
             => /\ Resolve(Snapshot, form) # 0
                /\ Snapshot[Resolve(Snapshot, form)].Name = resp.hostname

\* an upper-case, hyphen-separated MAC was resolved to the record that
\* declares it in colon form
C4_Witness ==
    /\ ConfigInHand
    /\ req.mac = <<"A", "-">>
    /\ resp.status = 200
    /\ resp.hostname = "b"

\* C6: every request, to /config, /reload and /status, records the current
\* time as lastActivity.
C6_EveryRequestTouches == ~Idle => lastActivity = now

\* C7: a resolve that ends in an error (wrong method, missing mac, a MAC no
\* record owns) still updates lastActivity and leaves the snapshot unchanged.
C7_FailedResolveTouchesOnly ==
    [][(Idle /\ req'.kind = "config" /\ resp'.status \in {405, 400, 404})
       => /\ lastActivity' = now
          /\ Snapshot' = Snapshot
          /\ instances' = instances]_vars

\* a resolve for an unregistered MAC was answered 404 after the clock had
\* moved past the previous activity
C7_Witness ==
    /\ req.kind = "config"
    /\ resp.status = 404
    /\ Snapshot # <<>>
    /\ lastActivity = now
    /\ now > 0

-----------------------------------------------------------------------------
(* SpecConc: the handlers step by step.  Each goroutine runs one handler;   *)
(* the steps of different goroutines interleave.  s.mu is the RWMutex.     *)

\* the arrays something still refers to
Live(inst, ptrs, news) ==
    {inst} \cup {ptrs[t].arr : t \in Resolvers} \cup {news[l] : l \in Reloaders}

\* garbage collection: the heap without the arrays nothing refers to
Collect(h, live) == [a \in (DOMAIN h) \cap live |-> h[a]]

\* a resolve that keeps the index it found and reads the live slice again
DerefCurrent(ptr) ==
    IF ptr.idx <= Len(Snapshot) THEN Snapshot[ptr.idx] ELSE heap[ptr.arr][ptr.idx]

\* *instance, for the pointer findInstanceByMAC returned (inst := &s.instances[i])
Deref(ptr) == heap[ptr.arr][ptr.idx]

\* server.go:85-101: activity, method and parameter checks, normalization
RBegin(t, method, mac) ==
    /\ rpc[t] = "idle"
    /\ updateActivity
    /\ IF method # "GET"
       THEN /\ rresp' = [rresp EXCEPT ![t] = ErrorResp(405)]
            /\ rpc' = [rpc EXCEPT ![t] = "done"]
            /\ UNCHANGED <<rmac, rsnap>>
       ELSE IF mac = <<>>
       THEN /\ rresp' = [rresp EXCEPT ![t] = ErrorResp(400)]
            /\ rpc' = [rpc EXCEPT ![t] = "done"]
            /\ UNCHANGED <<rmac, rsnap>>
       ELSE /\ rmac' = [rmac EXCEPT ![t] = NormalizeMAC(mac)]
            /\ rpc' = [rpc EXCEPT ![t] = "rlock"]
            /\ UNCHANGED rsnap
            /\ UNCHANGED rresp
    /\ UNCHANGED <<heap, instances, now, req, resp, mu, rptr, rnets>>
    /\ UNCHANGED <<lpc, ldata, lnew, lresp>>
    /\ UNCHANGED <<mainVars, clientVars>>

\* server.go:104  s.mu.RLock()
RLock(t) ==
    /\ rpc[t] = "rlock"
    /\ mu.w = "none"
    /\ mu' = [mu EXCEPT !.r = @ \cup {t}]
    /\ rpc' = [rpc EXCEPT ![t] = "find"]
    /\ UNCHANGED <<heap, instances, lastActivity, now, req, resp>>
    /\ UNCHANGED <<rmac, rptr, rnets, rresp, rsnap, lpc, ldata, lnew, lresp>>
    /\ UNCHANGED <<mainVars, clientVars>>

\* server.go:105  instance := s.findInstanceByMAC(mac)
RFind(t) ==
    LET i == findInstanceByMAC(Snapshot, rmac[t]) IN
    /\ rpc[t] = "find"
    /\ rptr' = [rptr EXCEPT ![t] = IF i = 0 THEN NoPtr
                                   ELSE [arr |-> instances, idx |-> i]]
    /\ rsnap' = [rsnap EXCEPT ![t] = Snapshot]
    /\ rpc' = [rpc EXCEPT ![t] = "runlock"]
    /\ UNCHANGED <<heap, instances, lastActivity, now, req, resp, mu>>
    /\ UNCHANGED <<rmac, rnets, rresp, lpc, ldata, lnew, lresp>>
    /\ UNCHANGED <<mainVars, clientVars>>

\* server.go:106-112  s.mu.RUnlock() and the nil check
RUnlock(t) ==
    /\ rpc[t] = "runlock"
    /\ mu' = [mu EXCEPT !.r = @ \ {t}]
    /\ IF rptr[t] = NoPtr
       THEN /\ rresp' = [rresp EXCEPT ![t] = ErrorResp(404)]
            /\ rpc' = [rpc EXCEPT ![t] = "done"]
       ELSE /\ rpc' = [rpc EXCEPT ![t] = "parse"]
            /\ UNCHANGED rresp
    /\ UNCHANGED <<heap, instances, lastActivity, now, req, resp>>
    /\ UNCHANGED <<rmac, rptr, rnets, rsnap, lpc, ldata, lnew, lresp>>
    /\ UNCHANGED <<mainVars, clientVars>>

\* server.go:117  networks := s.parseAllNetworkConfigs(instance)
RParse(t) ==
    /\ rpc[t] = "parse"
    /\ rnets' = [rnets EXCEPT ![t] = parseAllNetworkConfigs(Deref(rptr[t]))]
    /\ rpc' = [rpc EXCEPT ![t] = "respond"]
    /\ UNCHANGED <<heap, instances, lastActivity, now, req, resp, mu>>
    /\ UNCHANGED <<rmac, rptr, rresp, rsnap, lpc, ldata, lnew, lresp>>
    /\ UNCHANGED <<mainVars, clientVars>>

\* server.go:119-145: the primary network, the response, its encoding
RRespond(t, encodeOk) ==
    /\ rpc[t] = "respond"
    /\ IF ~encodeOk THEN rresp' = [rresp EXCEPT ![t] = ErrorResp(500)]
       ELSE \E primary \in PrimaryChoices(rnets[t]) :
                rresp' = [rresp EXCEPT
                            ![t] = ConfigResp(Deref(rptr[t]).Name, primary, rnets[t])]
    /\ rptr' = [rptr EXCEPT ![t] = NoPtr]
    /\ heap' = Collect(heap, Live(instances, rptr', lnew))
    /\ rpc' = [rpc EXCEPT ![t] = "done"]
    /\ UNCHANGED <<instances, lastActivity, now, req, resp, mu>>
    /\ UNCHANGED <<rmac, rnets, rsnap, lpc, ldata, lnew, lresp>>
    /\ UNCHANGED <<mainVars, clientVars>>

\* the response has been read; the goroutine serves the next request
RFinish(t) ==
    /\ rpc[t] = "done"
    /\ rpc' = [rpc EXCEPT ![t] = "idle"]
    /\ rmac' = [rmac EXCEPT ![t] = <<>>]
    /\ rnets' = [rnets EXCEPT ![t] = EmptyNetworks]
    /\ rresp' = [rresp EXCEPT ![t] = NoResp]
    /\ rsnap' = [rsnap EXCEPT ![t] = <<>>]
    /\ UNCHANGED <<heap, instances, lastActivity, now, req, resp, mu, rptr>>
    /\ UNCHANGED <<lpc, ldata, lnew, lresp>>
    /\ UNCHANGED <<mainVars, clientVars>>

\* server.go:229-234: activity and method check
LBegin(l, method) ==
    /\ lpc[l] = "idle"
    /\ updateActivity
    /\ IF method # "POST"
       THEN /\ lresp' = [lresp EXCEPT ![l] = ErrorResp(405)]
            /\ lpc' = [lpc EXCEPT ![l] = "done"]
       ELSE /\ lpc' = [lpc EXCEPT ![l] = "lock"]
            /\ UNCHANGED lresp
    /\ UNCHANGED <<heap, instances, now, req, resp, mu, ldata, lnew>>
    /\ UNCHANGED <<rpc, rmac, rptr, rnets, rresp, rsnap>>
    /\ UNCHANGED <<mainVars, clientVars>>

\* server.go:45  s.mu.Lock()
LLock(l) ==
    /\ lpc[l] = "lock"
    /\ mu.w = "none"
    /\ mu.r = {}
    /\ mu' = [mu EXCEPT !.w = l]
    /\ lpc' = [lpc EXCEPT ![l] = "read"]
    /\ UNCHANGED <<heap, instances, lastActivity, now, req, resp>>
    /\ UNCHANGED <<rpc, rmac, rptr, rnets, rresp, rsnap, ldata, lnew, lresp>>
    /\ UNCHANGED <<mainVars, clientVars>>

\* server.go:48-56: ReadFile and Unmarshal into the local slice
LRead(l, data) ==
    LET new == NewArray(Live(instances, rptr, lnew)) IN
    /\ lpc[l] = "read"
    /\ ldata' = [ldata EXCEPT ![l] = data]
    /\ IF loadFails(data)
       THEN /\ lpc' = [lpc EXCEPT ![l] = "unlock"]
            /\ UNCHANGED <<heap, lnew>>
       ELSE /\ heap' = [a \in (DOMAIN heap) \cup {new} |->
                          IF a = new THEN NewSnapshot(Snapshot, data) ELSE heap[a]]
            /\ lnew' = [lnew EXCEPT ![l] = new]
            /\ lpc' = [lpc EXCEPT ![l] = "assign"]
    /\ UNCHANGED <<instances, lastActivity, now, req, resp, mu, lresp>>
    /\ UNCHANGED <<rpc, rmac, rptr, rnets, rresp, rsnap>>
    /\ UNCHANGED <<mainVars, clientVars>>

\* server.go:58  s.instances = instances
LAssign(l) ==
    /\ lpc[l] = "assign"
    /\ instances' = lnew[l]
    /\ lnew' = [lnew EXCEPT ![l] = 0]
    /\ heap' = Collect(heap, Live(instances', rptr, lnew'))
    /\ lpc' = [lpc EXCEPT ![l] = "unlock"]
    /\ UNCHANGED <<lastActivity, now, req, resp, mu, ldata, lresp>>
    /\ UNCHANGED <<rpc, rmac, rptr, rnets, rresp, rsnap>>
    /\ UNCHANGED <<mainVars, clientVars>>

\* server.go:46 (deferred) s.mu.Unlock(), then HandleReload's error check
LUnlock(l) ==
    /\ lpc[l] = "unlock"
    /\ mu' = [mu EXCEPT !.w = "none"]
    /\ IF loadFails(ldata[l])
       THEN /\ lresp' = [lresp EXCEPT ![l] = ErrorResp(500)]
            /\ lpc' = [lpc EXCEPT ![l] = "done"]
       ELSE /\ lpc' = [lpc EXCEPT ![l] = "count"]
            /\ UNCHANGED lresp
    /\ UNCHANGED <<heap, instances, lastActivity, now, req, resp, ldata, lnew>>
    /\ UNCHANGED <<rpc, rmac, rptr, rnets, rresp, rsnap>>
    /\ UNCHANGED <<mainVars, clientVars>>

\* server.go:242-243: the 200 with len(s.instances), read without the lock
LCount(l) ==
    /\ lpc[l] = "count"
    /\ lresp' = [lresp EXCEPT ![l] = [NoResp EXCEPT !.status = 200,
                                                     !.count = Len(Snapshot)]]
    /\ lpc' = [lpc EXCEPT ![l] = "done"]
    /\ UNCHANGED <<heap, instances, lastActivity, now, req, resp, mu, ldata, lnew>>
    /\ UNCHANGED <<rpc, rmac, rptr, rnets, rresp, rsnap>>
    /\ UNCHANGED <<mainVars, clientVars>>

\* the response has been read; the goroutine serves the next request
LFinish(l) ==
    /\ lpc[l] = "done"
    /\ lpc' = [lpc EXCEPT ![l] = "idle"]
    /\ ldata' = [ldata EXCEPT ![l] = Unreadable]
    /\ lresp' = [lresp EXCEPT ![l] = NoResp]
    /\ UNCHANGED <<heap, instances, lastActivity, now, req, resp, mu, lnew>>
    /\ UNCHANGED <<rpc, rmac, rptr, rnets, rresp, rsnap>>
    /\ UNCHANGED <<mainVars, clientVars>>

\* the requests and the instances files of the interleaved runs
ConcMacs == {<<>>, <<"A", "a">>, <<"A", "-">>, <<":", "a">>}
ConcInventories == {<<RecA>>, <<RecB, RecA>>, <<RecC>>}
ConcFiles == {Unreadable} \cup {FileOf(recs) : recs \in ConcInventories}

\* the goroutine that reloads while two resolve
ConcReloaders == {"l1"}

NextConc ==
    \/ \E t \in Resolvers, method \in Methods, mac \in ConcMacs :
           RBegin(t, method, mac)
    \/ \E t \in Resolvers : RLock(t)
    \/ \E t \in Resolvers : RFind(t)
    \/ \E t \in Resolvers : RUnlock(t)
    \/ \E t \in Resolvers : RParse(t)
    \/ \E t \in Resolvers, encodeOk \in BOOLEAN : RRespond(t, encodeOk)
    \/ \E t \in Resolvers : RFinish(t)
    \/ \E l \in ConcReloaders, method \in Methods : LBegin(l, method)
    \/ \E l \in ConcReloaders : LLock(l)
    \/ \E l \in ConcReloaders, data \in ConcFiles : LRead(l, data)
    \/ \E l \in ConcReloaders : LAssign(l)
    \/ \E l \in ConcReloaders : LUnlock(l)
    \/ \E l \in ConcReloaders : LCount(l)
    \/ \E l \in ConcReloaders : LFinish(l)

InitConc == ServerInit(ConcInventories) /\ MainInit({0}) /\ ClientInit({0})

SpecConc == InitConc /\ [][NextConc]_vars

\* C5: under any interleaving of resolves and reloads, a resolve's response
\* (hostname and networks) is what one complete snapshot gives for the MAC,
\* the one s.instances held when the resolve looked the MAC up (before or
\* after a concurrent reload), never a mixture of two snapshots.
C5_ResponseFromOneSnapshot ==
    \A t \in Resolvers :
        (rpc[t] = "done" /\ rresp[t].status \in {200, 404})
        => IF rresp[t].status = 404 THEN Owners(rsnap[t], rmac[t]) = {}
           ELSE /\ Owners(rsnap[t], rmac[t]) # {}
                /\ rresp[t].hostname = rsnap[t][FirstOwner(rsnap[t], rmac[t])].Name
                /\ rresp[t].networks =
                      parseAllNetworkConfigs(rsnap[t][FirstOwner(rsnap[t], rmac[t])])

\* a reload replaced the snapshot while a resolve was in progress, and the
\* resolve answered from the snapshot before the reload
C5_Witness ==
    \E t \in Resolvers :
        /\ rpc[t] = "done"
        /\ rresp[t].status = 200
        /\ rsnap[t] # Snapshot
        /\ Owners(Snapshot, rmac[t]) # {}
        /\ rresp[t].hostname # Snapshot[FirstOwner(Snapshot, rmac[t])].Name

-----------------------------------------------------------------------------
(* SpecMain: cmd/server main from the shutdown channel on: the idle        *)
(* monitor, the signal goroutine and the wait for shutdown.  The clock     *)
(* counts units of 15 s; requests appear as their call of updateActivity.  *)

TickerPeriod == 2    \* time.NewTicker(30 * time.Second)

\* the clock runs long enough after the last request for any timeout to pass
\* and the next tick to come
MaxClock == MaxRequestTime + MaxTimeout + TickerPeriod

serverState == <<heap, instances, req, resp, concVars>>

\* close(shutdown): closing a closed channel panics
Close(who) ==
    /\ closers' = closers \cup {who}
    /\ IF shutdown = "closed" THEN panicked' = TRUE /\ UNCHANGED shutdown
       ELSE shutdown' = "closed" /\ UNCHANGED panicked

\* a poll that measures the time since the server started
UptimeSince(la) == now

\* main.go:85  idleTime := time.Since(lastActivity)
IdleTimeSince(la) == now - la

\* a poll that shuts down only after the threshold has been passed
IdlePastTimeout(idleTime) == idleTime > idleTimeout

\* main.go:87  idleTime >= *idleTimeout
IdleReached(idleTime) == idleTime >= idleTimeout

\* the wall clock advances; the ticker fires every TickerPeriod
ClockTick ==
    /\ ~panicked
    /\ now < MaxClock
    /\ now' = now + 1
    /\ tickerC' = IF monPc \in {"select", "check"} /\ now' % TickerPeriod = 0
                  THEN TRUE ELSE tickerC
    /\ UNCHANGED <<lastActivity, idleTimeout, shutdown, closers, panicked, sigChan,
                   monPc, monLa, sigPc, mainPc>>
    /\ UNCHANGED <<serverState, clientVars>>

\* a request is served: its handler calls updateActivity
Activity ==
    /\ ~panicked
    /\ mainPc # "stopped"
    /\ now <= MaxRequestTime
    /\ updateActivity
    /\ UNCHANGED <<now, mainVars, serverState, clientVars>>

\* main.go:83-84  case <-ticker.C, then srv.GetLastActivity()
MonPoll ==
    /\ ~panicked
    /\ monPc = "select"
    /\ tickerC
    /\ tickerC' = FALSE
    /\ monLa' = lastActivity
    /\ monPc' = "check"
    /\ UNCHANGED <<lastActivity, now, idleTimeout, shutdown, closers, panicked,
                   sigChan, sigPc, mainPc>>
    /\ UNCHANGED <<serverState, clientVars>>

\* main.go:85-94  time.Since, the comparison, close(shutdown) and return
MonCheck ==
    /\ ~panicked
    /\ monPc = "check"
    /\ IF IdleReached(IdleTimeSince(monLa))
       THEN Close("idle") /\ monPc' = "returned"
       ELSE monPc' = "select" /\ UNCHANGED <<shutdown, closers, panicked>>
    /\ UNCHANGED <<lastActivity, now, idleTimeout, tickerC, sigChan, monLa, sigPc,
                   mainPc>>
    /\ UNCHANGED <<serverState, clientVars>>

\* main.go:96-97  case <-shutdown: return
MonSeesShutdown ==
    /\ ~panicked
    /\ monPc = "select"
    /\ shutdown = "closed"
    /\ monPc' = "returned"
    /\ UNCHANGED <<lastActivity, now, idleTimeout, shutdown, closers, panicked,
                   tickerC, sigChan, monLa, sigPc, mainPc>>
    /\ UNCHANGED <<serverState, clientVars>>

\* main.go:104-105  the OS delivers SIGINT or SIGTERM into sigChan
OsSignal ==
    /\ ~panicked
    /\ mainPc # "stopped"
    /\ ~sigChan
    /\ sigChan' = TRUE
    /\ UNCHANGED <<lastActivity, now, idleTimeout, shutdown, closers, panicked,
                   tickerC, monPc, monLa, sigPc, mainPc>>
    /\ UNCHANGED <<serverState, clientVars>>

\* main.go:109-111  case sig := <-sigChan: close(shutdown)
SigReceives ==
    /\ ~panicked
    /\ sigPc = "select"
    /\ sigChan
    /\ sigChan' = FALSE
    /\ Close("signal")
    /\ sigPc' = "returned"
    /\ UNCHANGED <<lastActivity, now, idleTimeout, tickerC, monPc, monLa, mainPc>>
    /\ UNCHANGED <<serverState, clientVars>>

\* main.go:112  case <-shutdown:
SigSeesShutdown ==
    /\ ~panicked
    /\ sigPc = "select"
    /\ shutdown = "closed"
    /\ sigPc' = "returned"
    /\ UNCHANGED <<lastActivity, now, idleTimeout, shutdown, closers, panicked,
                   tickerC, sigChan, monPc, monLa, mainPc>>
    /\ UNCHANGED <<serverState, clientVars>>

\* main.go:132  <-shutdown
MainReceives ==
    /\ ~panicked
    /\ mainPc = "wait"
    /\ shutdown = "closed"
    /\ mainPc' = "shutdown"
    /\ UNCHANGED <<lastActivity, now, idleTimeout, shutdown, closers, panicked,
                   tickerC, sigChan, monPc, monLa, sigPc>>
    /\ UNCHANGED <<serverState, clientVars>>

\* main.go:135-143  httpServer.Shutdown(ctx): the listener is stopped
MainShutsDown ==
    /\ ~panicked
    /\ mainPc = "shutdown"
    /\ mainPc' = "stopped"
    /\ UNCHANGED <<lastActivity, now, idleTimeout, shutdown, closers, panicked,
                   tickerC, sigChan, monPc, monLa, sigPc>>
    /\ UNCHANGED <<serverState, clientVars>>

\* the steps of a run in which the OS delivers no signal (only the monitor
\* can then close the channel, so it never finds it closed)
NextQuiet ==
    \/ ClockTick
    \/ Activity
    \/ MonPoll
    \/ MonCheck
    \/ SigSeesShutdown
    \/ MainReceives
    \/ MainShutsDown

NextMain ==
    \/ NextQuiet
    \/ MonSeesShutdown
    \/ OsSignal
    \/ SigReceives

InitMain == ServerInit({<<>>}) /\ MainInit(0..MaxTimeout) /\ ClientInit({0})

SpecMain == InitMain /\ [][NextMain]_vars

\* the clock runs, and every goroutine that can take a step gets to take it
FairMain ==
    /\ WF_vars(ClockTick)
    /\ WF_vars(MonPoll)
    /\ WF_vars(MonCheck)
    /\ WF_vars(MainReceives)
    /\ WF_vars(MainShutsDown)

\* the server left alone by the OS: no signal is delivered
SpecQuiet == InitMain /\ [][NextQuiet]_vars /\ FairMain

\* C37: in every interleaving of the idle monitor reaching its threshold and
\* an OS signal arriving, while the process runs close(shutdown) is called at
\* most once and nothing panics, and main goes on to the graceful shutdown
\* only after the one close.
C37_ClosedOnce ==
    /\ mainPc # "stopped" => (~panicked /\ Cardinality(closers) <= 1)
    /\ mainPc # "wait" => (shutdown = "closed" /\ closers # {})

\* C8: the idle monitor closes the shutdown channel only at a poll at which
\* the time since the lastActivity it read is at least the idle timeout, never
\* at a poll that observed less; with idle-timeout 0 there is no monitor and
\* no shutdown for idleness.
C8_ShutdownOnlyWhenIdle ==
    /\ [][("idle" \notin closers /\ "idle" \in closers')
          => /\ idleTimeout > 0
             /\ monPc = "check"
             /\ now - monLa >= idleTimeout
             /\ monLa <= lastActivity]_vars
    /\ [](idleTimeout = 0 => (monPc = "off" /\ "idle" \notin closers))

\* the monitor has closed the channel at the second tick or later, after a
\* request had moved lastActivity
C8_Witness ==
    /\ closers = {"idle"}
    /\ shutdown = "closed"
    /\ lastActivity > 0
    /\ now - monLa >= idleTimeout
    /\ now >= 2 * TickerPeriod

\* C9: with a positive idle timeout and no further request the server
\* eventually shuts down: the first poll at which the idle time has reached
\* the timeout closes the shutdown channel, and main then stops the listener.
C9_IdleServerStops ==
    /\ (idleTimeout > 0) ~> (mainPc = "stopped")
    /\ [][(monPc = "check" /\ monPc' # "check" /\ now - monLa >= idleTimeout)
          => (shutdown = "open" /\ shutdown' = "closed" /\ closers' = {"idle"})]_vars
    /\ [][(mainPc # "stopped" /\ mainPc' = "stopped") => shutdown = "closed"]_vars

\* the server served a request, went idle and was stopped by the monitor
C9_Witness ==
    /\ idleTimeout > 0
    /\ lastActivity > 0
    /\ closers = {"idle"}
    /\ mainPc = "stopped"

-----------------------------------------------------------------------------
(* SpecClient: the delivery client's fetch (cmd/client/linux and           *)
(* cmd/client/openwrt share requestConfigWithRetry and requestConfig).     *)

\* what one call of requestConfig meets: a URL or transport error, or a
\* response with a status and a body that decodes or not
NetErr == [neterr |-> TRUE, status |-> 0, decodes |-> FALSE]
Answer(status, decodes) == [neterr |-> FALSE, status |-> status, decodes |-> decodes]
Outcomes == {NetErr, Answer(200, TRUE), Answer(200, FALSE), Answer(204, TRUE),
             Answer(404, FALSE), Answer(500, FALSE)}

\* requestConfig: err == nil
requestConfigOk(o) == ~o.neterr /\ o.status = 200 /\ o.decodes

SleepEvent(d) == [kind |-> "sleep", delay |-> d, outcome |-> NetErr]
FetchEvent(o) == [kind |-> "fetch", delay |-> 0, outcome |-> o]

\* a loop that runs once more than the budget
LoopThroughBudget(i) == i <= maxRetries

\* for i := 0; i < maxRetries; i++
LoopContinues(i) == i < maxRetries

clientRest == <<heap, instances, lastActivity, now, req, resp, concVars, mainVars,
                hostVars>>

\* part_006:143-147  the loop test and the choice to sleep
CLoop ==
    /\ cpc = "loop"
    /\ IF LoopContinues(ci)
       THEN cpc' = (IF ci > 0 THEN "sleep" ELSE "fetch") /\ UNCHANGED cret
       ELSE cpc' = "returned" /\ cret' = "err"
    /\ UNCHANGED <<maxRetries, ci, clog, exitCode, clientRest>>

\* part_006:145-146  time.Sleep(retryDelay)
CSleep ==
    /\ cpc = "sleep"
    /\ clog' = Append(clog, SleepEvent(retryDelay))
    /\ cpc' = "fetch"
    /\ UNCHANGED <<maxRetries, ci, cret, exitCode, clientRest>>

\* part_006:149-155  requestConfig, return on success, else count the attempt
CFetch(o) ==
    /\ cpc = "fetch"
    /\ clog' = Append(clog, FetchEvent(o))
    /\ IF requestConfigOk(o)
       THEN cpc' = "returned" /\ cret' = "ok" /\ UNCHANGED ci
       ELSE cpc' = "loop" /\ ci' = ci + 1 /\ UNCHANGED cret
    /\ UNCHANGED <<maxRetries, exitCode, clientRest>>

\* a main that exits quietly when the loop gave up
CAfterFetchQuiet ==
    /\ cpc = "returned"
    /\ IF cret = "err" THEN cpc' = "exited" /\ exitCode' = 0
       ELSE cpc' = "apply" /\ UNCHANGED exitCode
    /\ UNCHANGED <<maxRetries, ci, clog, cret, clientRest>>

\* part_006:81-85  main: log.Fatalf on error, else go on to apply the config
CAfterFetch ==
    /\ cpc = "returned"
    /\ IF cret = "err" THEN cpc' = "exited" /\ exitCode' = 1
       ELSE cpc' = "apply" /\ UNCHANGED exitCode
    /\ UNCHANGED <<maxRetries, ci, clog, cret, clientRest>>

NextClient ==
    \/ CLoop
    \/ CSleep
    \/ \E o \in Outcomes : CFetch(o)
    \/ CAfterFetch

InitClient == ServerInit({<<>>}) /\ MainInit({0}) /\ ClientInit(0..MaxRetries)

SpecClient == InitClient /\ [][NextClient]_vars

\* the positions of the fetch attempts in the log
Fetches == {k \in 1..Len(clog) : clog[k].kind = "fetch"}

\* an attempt that met a transport error or a status outside 200..299
Failed(o) == o.neterr \/ o.status < 200 \/ o.status > 299

\* C10: requestConfigWithRetry makes at most maxRetries attempts, returns at
\* the first successful one and makes none after it, sleeps retryDelay before
\* every attempt but the first, and reports failure (exit status 1) only after
\* maxRetries failed attempts; a transport error or a non-2xx status is a
\* failed attempt.
C10_BoundedRetry ==
    /\ Cardinality(Fetches) <= maxRetries
    /\ \A k \in 1..Len(clog) :
          /\ (clog[k].kind = "fetch") <=> (k % 2 = 1)
          /\ clog[k].kind = "sleep" => clog[k].delay = RetryDelay
          /\ (k < Len(clog) /\ clog[k].kind = "fetch") => ~requestConfigOk(clog[k].outcome)
          /\ (clog[k].kind = "fetch" /\ Failed(clog[k].outcome))
             => ~(k = Len(clog) /\ cret = "ok")
    /\ cret = "ok" => (clog # <<>> /\ clog[Len(clog)].kind = "fetch"
                       /\ ~Failed(clog[Len(clog)].outcome))
    /\ (clog # <<>> /\ clog[Len(clog)].kind = "fetch"
        /\ clog[Len(clog)].outcome = Answer(200, TRUE))
       => cpc \in {"returned", "apply"} /\ cret = "ok"
    /\ cret = "err" => Cardinality(Fetches) = maxRetries
    /\ cpc = "exited" <=> exitCode # 0
    /\ cpc = "exited" => (exitCode = 1 /\ cret = "err")
    /\ cpc = "apply" => cret = "ok"

\* the budget of at least two attempts was used up, with a sleep between the
\* attempts, and the client exited with status 1
C10_Witness ==
    /\ maxRetries >= 2
    /\ cpc = "exited"
    /\ exitCode = 1
    /\ Len(clog) = 2 * maxRetries - 1
    /\ \E k \in Fetches : clog[k].outcome = Answer(404, FALSE)
    /\ \E k \in Fetches : clog[k].outcome = NetErr

-----------------------------------------------------------------------------
(* SpecApply: the backend appliers.  A host of one platform, with backends *)
(* in some earlier state, has NetworkConfigs applied to it, one             *)
(* application after the other.                                            *)

hostRest == <<heap, instances, lastActivity, now, req, resp, concVars, mainVars,
              maxRetries, cpc, ci, clog, cret, exitCode,
              retryDelay, platform, probes, marker, hostname, served, effects, logFile,
              noDelay, subnetsFile, forge>>

\* the orders a range over the names S may take
Orders(S) == {o \in [1..Cardinality(S) -> S] : \A i, j \in DOMAIN o : o[i] = o[j] => i = j}

\* the networks maps applied on Linux: one and two interfaces, static and
\* DHCP, with an empty and with an invalid address
LinuxMaps ==
    { Cfg(Eth0, CfgStatic), Cfg(Eth0, CfgDHCP), Cfg(Eth0, CfgNoAddr),
      Cfg(Eth0, CfgDHCPBad),
      Cfg(Eth0, CfgStatic) @@ Cfg(Eth1, CfgDHCP),
      Cfg(Eth0, CfgBadAddr) @@ Cfg(Eth1, CfgStatic),
      Cfg(Eth0, CfgNoAddr) @@ Cfg(Eth1, CfgBare),
      Cfg(Eth0, CfgDHCPBad) @@ Cfg(Eth1, CfgStatic),
      Cfg(Eth0, CfgV6) @@ Cfg(Eth1, CfgBare) }

\* the networks maps applied on OpenWrt: also two names of one UCI
\* interface, and a name whose UCI interface does not exist
UciMaps ==
    { Cfg(Eth1, CfgStatic), Cfg(Eth1, CfgNoAddr),
      Cfg(Eth0, CfgDHCP) @@ Cfg(Eth1, CfgStatic),
      Cfg(Eth0, CfgBadAddr) @@ Cfg(Eth1, CfgStatic),
      Cfg(Eth0, CfgStatic) @@ Cfg(Eth5, CfgDHCP),
      Cfg(Eth1, CfgStatic) @@ Cfg(EthD1, CfgBare),
      Cfg(EthD0, CfgDHCP), Cfg(Eth2, CfgDHCP) @@ Cfg(EthD2, CfgStatic),
      Cfg(Eth3, CfgDHCP) @@ Cfg(EthD3, CfgStatic), Cfg(EthD7, CfgDHCP),
      Cfg(Eth12, CfgDHCP), Cfg(ETH0, CfgDHCP), Cfg(EthU1, CfgDHCP),
      Cfg(Ens5, CfgDHCP) }

Aliases == {Wan, Lan, Lan2}

\* the invocation a tool fails at (0: none)
ToolFailures == {0, 3}
FileFailures == 0..3
Failing(file, nmcli, auto) == [file |-> file, nmcli |-> nmcli, auto |-> auto]

\* no application is in hand
Settled == op = NoOp

Applied(kind, target, cfg, networks, order, fail, r) ==
    /\ Settled
    /\ applies < MaxApplies
    /\ applies' = applies + 1
    /\ backend' = r.b
    /\ op' = Application(kind, target, cfg, networks, order, fail, backend, r)
    /\ UNCHANGED hostRest

\* openwrt.ConfigureInterface on one UCI interface
ApplyInterface(uciInterface, cfg) ==
    /\ platform = "openwrt"
    /\ Applied("interface", uciInterface, cfg, EmptyNetworks, <<>>, NoFail,
               ConfigureInterface(backend, uciInterface, cfg))

\* cmd/client/openwrt main, lines 89-96, on a map
ApplyEachInterface(networks, order) ==
    /\ platform = "openwrt"
    /\ Applied("each", <<>>, DefaultNetwork, networks, order, NoFail,
               ConfigureEachInterface(backend, networks, order, {}, <<>>))

\* windows.ConfigureNetwork
ApplyWindows(cfg, failAt) ==
    /\ platform = "windows"
    /\ Applied("windows", <<>>, cfg, EmptyNetworks, <<>>, Failing(failAt, NoFail.nmcli, FALSE),
               WindowsConfigureNetwork(backend, cfg, failAt))

\* linux.ConfigureAllNetworks
ApplyAllNetworks(networks, order, fail) ==
    /\ platform = "linux"
    /\ Applied("all", <<>>, DefaultNetwork, networks, order, fail,
               ConfigureAllNetworks(backend, probes, networks, order, fail))

\* linux.ConfigureNetwork
ApplyNetwork(cfg, failAt) ==
    /\ platform = "linux"
    /\ Applied("one", <<>>, cfg, EmptyNetworks, <<>>, Failing(failAt, NoFail.nmcli, FALSE),
               LinuxConfigureNetwork(backend, probes, cfg, failAt))

\* the application in hand made once more, to the same target with the
\* same input, with no tool failing
Again(b) ==
    CASE op.kind = "interface" -> ConfigureInterface(b, op.target, op.cfg)
      [] op.kind = "each" -> ConfigureEachInterface(b, op.networks, op.order, {}, <<>>)
      [] op.kind = "windows" -> WindowsConfigureNetwork(b, op.cfg, 0)
      [] op.kind = "all" ->
           ConfigureAllNetworks(b, probes, op.networks, op.order,
                                Failing(0, [n \in DOMAIN op.networks |-> 0], op.fail.auto))
      [] op.kind = "one" -> LinuxConfigureNetwork(b, probes, op.cfg, 0)

Reapply ==
    /\ ~Settled
    /\ op.times = 1
    /\ LET r == Again(backend)
       IN  /\ backend' = r.b
           /\ op' = [op EXCEPT !.times = 2, !.once = backend, !.err = r.err,
                               !.failed = r.failed, !.ran = r.ran]
    /\ UNCHANGED <<applies, hostRest>>

\* the application is over
Settle ==
    /\ ~Settled
    /\ op' = NoOp
    /\ UNCHANGED <<backend, applies, hostRest>>

NextApply ==
    \/ \E a \in Aliases, cfg \in NetworkConfigs : ApplyInterface(a, cfg)
    \/ \E networks \in UciMaps :
          \E order \in Orders(DOMAIN networks) : ApplyEachInterface(networks, order)
    \/ \E cfg \in WindowsConfigs, failAt \in FileFailures : ApplyWindows(cfg, failAt)
    \/ \E networks \in LinuxMaps :
          \E order \in Orders(DOMAIN networks) :
             \E fail \in IF detectNetworkMethod(probes) = "NetworkManager"
                         THEN {Failing(0, f, a) : f \in [DOMAIN networks -> ToolFailures],
                                                    a \in BOOLEAN}
                         ELSE {Failing(f, [n \in DOMAIN networks |-> 0], FALSE) :
                               f \in FileFailures} :
                ApplyAllNetworks(networks, order, fail)
    \/ \E cfg \in NetworkConfigs, failAt \in FileFailures : ApplyNetwork(cfg, failAt)
    \/ Reapply
    \/ Settle

\* the client loop is not running
LoopOff ==
    /\ maxRetries = 0
    /\ cpc = "off"
    /\ ci = 0
    /\ clog = <<>>
    /\ cret = "none"
    /\ exitCode = 0

InitApply ==
    /\ ServerInit({<<>>}) /\ MainInit({0}) /\ LoopOff
    /\ retryDelay = RetryDelay
    /\ platform \in Platforms
    /\ \E h \in Hosts(platform) : probes = h[1] /\ backend = h[2]
    /\ op = NoOp
    /\ applies = 0
    /\ marker = FALSE
    /\ hostname = ""
    /\ served = NoServed
    /\ noDelay = FALSE
    /\ ForgeOff
    /\ effects = <<>>
    /\ logFile = "closed"

SpecApply == InitApply /\ [][NextApply]_vars

-----------------------------------------------------------------------------
(* Properties of the backend appliers (SpecApply). *)

LinuxInHand == platform = "linux" /\ op.kind \in {"all", "one"} /\ op.times = 1

\* the tools of the commands the application in hand ran
ToolsRun == {op.ran[k].tool : k \in 1..Len(op.ran)}

NetworkManagerPresent == probes.nmcli /\ probes.nmActive

\* C14: the detector finds NetworkManager exactly when nmcli is installed
\* and the service is active, else Netplan when /etc/netplan exists, else
\* ifupdown when /etc/network/interfaces exists, else nothing; the applier
\* uses only the tools of the method found, and when none is found it
\* returns an error, runs nothing and leaves the backends as they were.
C14_DetectorPriority ==
    platform = "linux" =>
       LET method == detectNetworkMethod(probes)
       IN  /\ method = "NetworkManager" <=> NetworkManagerPresent
           /\ method = "Netplan" <=> (~NetworkManagerPresent /\ probes.netplanDir)
           /\ method = "ifupdown" <=> (~NetworkManagerPresent /\ ~probes.netplanDir
                                       /\ probes.interfacesFile)
           /\ method = "unknown" <=> (~NetworkManagerPresent /\ ~probes.netplanDir
                                      /\ ~probes.interfacesFile)
           /\ LinuxInHand =>
                /\ NetworkManagerPresent => ToolsRun \subseteq {"nmcli"}
                /\ (~NetworkManagerPresent /\ probes.netplanDir)
                   => (ToolsRun \subseteq {"os", "netplan"} /\ backend.nm = op.before.nm
                       /\ backend.ifupdown = op.before.ifupdown)
                /\ (~NetworkManagerPresent /\ ~probes.netplanDir /\ probes.interfacesFile)
                   => (ToolsRun \subseteq {"os", "systemctl", "ifdown", "ifup"}
                       /\ backend.nm = op.before.nm
                       /\ backend.netplan = op.before.netplan)
                /\ (~NetworkManagerPresent /\ ~probes.netplanDir /\ ~probes.interfacesFile)
                   => (op.err /\ op.ran = <<>> /\ backend = op.before)

\* a host with profiles and files but no method to be found was asked to
\* configure two interfaces, and refused
C14_Witness ==
    /\ platform = "linux"
    /\ probes = Probes(TRUE, FALSE, FALSE, FALSE)
    /\ op.kind = "all"
    /\ Cardinality(DOMAIN op.networks) = 2
    /\ op.err
    /\ backend = LinuxUsed

\* a config an applier can carry out: DHCP, or a static address that parses
Appliable(cfg) == cfg.DHCP \/ ~ParseCIDR(cfg.Address).err

\* the backend of the application in hand shows the interface n configured
\* as the map asks
Shows(n) ==
    LET cfg == op.networks[n]
    IN  CASE op.kind = "each" ->
               MapInterfaceName(n) \in DOMAIN backend.uci
               => backend.uci[MapInterfaceName(n)].proto
                     = (IF cfg.DHCP THEN "dhcp" ELSE "static")
          [] NetworkManagerPresent ->
               \E k \in 1..Len(backend.nm) :
                  /\ backend.nm[k].ifname = n
                  /\ backend.nm[k].active
                  /\ backend.nm[k].method = (IF cfg.DHCP THEN <<"auto">> ELSE <<"manual">>)
          [] OTHER ->
               \E k \in 1..Len(backend.ifupdown.stanzas) :
                  /\ backend.ifupdown.stanzas[k].name = n
                  /\ backend.ifupdown.stanzas[k].method
                        = (IF cfg.DHCP THEN "dhcp" ELSE "static")

\* a map of two or more interfaces, one of which cannot be configured, was
\* applied through a backend other than Netplan, and no tool failed
BatchWithFailure ==
    /\ op.kind \in {"all", "each"}
    /\ op.times = 1
    /\ op.kind = "all" => detectNetworkMethod(probes) \in {"NetworkManager", "ifupdown"}
    /\ Cardinality(DOMAIN op.networks) >= 2
    /\ \E n \in DOMAIN op.networks : ~Appliable(op.networks[n])
    /\ op.fail.file = 0
    /\ \A n \in DOMAIN op.fail.nmcli : op.fail.nmcli[n] = 0

\* C15: on NetworkManager, ifupdown and UCI a failure to configure one
\* interface of a map is only logged: the batch is not aborted with an
\* error, and every other interface of the map is configured.
C15_BatchGoesOn ==
    BatchWithFailure =>
       /\ ~op.err
       /\ \A n \in DOMAIN op.networks : Appliable(op.networks[n]) => Shows(n)

\* an address that is given and does not parse
InvalidAddress(cfg) == cfg.Address # "" /\ ParseCIDR(cfg.Address).err

NetplanInHand ==
    /\ LinuxInHand
    /\ detectNetworkMethod(probes) = "Netplan"
    /\ op.kind = "one" => op.before.primary # <<>>

\* the networks the application in hand handed to configureNetplanAll
NetplanNetworks ==
    IF op.kind = "one" THEN Cfg(op.before.primary, op.cfg) ELSE op.networks

\* nothing was written and nothing applied: the file and what Netplan has
\* in force are as before
NetplanUntouched ==
    /\ op.err
    /\ op.ran = <<>>
    /\ backend = op.before

\* C16 as stated: with Netplan, an invalid address on any interface of the
\* map aborts the application with an error before the file is written and
\* before netplan apply runs.
C16_AnyInvalidAddressAborts ==
    (NetplanInHand /\ \E n \in DOMAIN NetplanNetworks : InvalidAddress(NetplanNetworks[n]))
    => NetplanUntouched

\* C16: with Netplan, an invalid address on any interface of the map that
\* has dhcp=false aborts the application with an error before the file is
\* written and before netplan apply runs; when no such interface is in the
\* map the file is written, unless the write itself fails.
C16_StaticInvalidAddressAborts ==
    NetplanInHand =>
       IF \E n \in DOMAIN NetplanNetworks :
             ~NetplanNetworks[n].DHCP /\ InvalidAddress(NetplanNetworks[n])
       THEN NetplanUntouched
       ELSE /\ op.ran # <<>>
            /\ op.fail.file # 1 => backend.netplan.exists
            /\ op.fail.file # 1 =>
                  {backend.netplan.stanzas[k].name : k \in 1..Len(backend.netplan.stanzas)}
                     = DOMAIN NetplanNetworks

\* a map of a valid static interface and one with an invalid address was
\* refused; the earlier file is still there
C16_Witness ==
    /\ NetplanInHand
    /\ op.networks = Cfg(Eth0, CfgBadAddr) @@ Cfg(Eth1, CfgStatic)
    /\ op.order = <<Eth1, Eth0>>
    /\ op.err
    /\ backend.netplan = OldNetplan

\* no tool was made to fail in the application in hand
NoToolFailed == op.fail.file = 0 /\ \A n \in DOMAIN op.fail.nmcli : op.fail.nmcli[n] = 0

\* one NetworkConfig is in hand, on a host that has the interface, adapter
\* or method it is to be applied through
OneConfigInHand ==
    /\ op.times = 1
    /\ NoToolFailed
    /\ \/ op.kind = "interface" /\ op.target \in DOMAIN op.before.uci
       \/ op.kind = "windows" /\ op.before.netsh.name # <<>>
       \/ /\ op.kind = "one"
          /\ detectNetworkMethod(probes) # "unknown"
          /\ NetworkManagerPresent \/ op.before.primary # <<>>

\* C17: a NetworkConfig with dhcp=false and no address is taken by every
\* applier as nothing to configure: no error, and the backends as before.
C17_EmptyAddressLeftAlone ==
    (OneConfigInHand /\ ~op.cfg.DHCP /\ op.cfg.Address = "")
    => (~op.err /\ backend = op.before)

\* C18: an application made a second time, to the same target with the
\* same input, leaves the backends as the first time left them.
C18_TwiceAsOnce ==
    (op.times = 2 /\ NoToolFailed) => backend = op.once

UciInHand ==
    /\ op.kind = "interface"
    /\ op.times = 1
    /\ op.target \in DOMAIN op.before.uci

\* C19: DHCP applied to a UCI interface succeeds, whatever the interface
\* held, and leaves it with proto=dhcp and no ipaddr, netmask, gateway or
\* dns; the other interfaces and what is committed are as before.
C19_DHCPClearsStatic ==
    (UciInHand /\ op.cfg.DHCP) =>
       /\ ~op.err
       /\ backend.uci[op.target] = UciSection("dhcp", "", "", "", <<>>)
       /\ \A s \in DOMAIN op.before.uci \ {op.target} : backend.uci[s] = op.before.uci[s]
       /\ DOMAIN backend.uci = DOMAIN op.before.uci
       /\ backend.uciSaved = op.before.uciSaved

\* lan held a static address, a gateway and two DNS servers and is on DHCP
\* now
C19_Witness ==
    /\ UciInHand
    /\ op.cfg.DHCP
    /\ op.target = Lan
    /\ op.before.uci[Lan].proto = "static"
    /\ Len(op.before.uci[Lan].dns) = 2
    /\ backend.uci[Lan].proto = "dhcp"

\* the address and the dotted netmask of the CIDRs the model declares
DeclaredIP(a) ==
    CASE a = "192.168.1.15/24" -> "192.168.1.15" [] a = "10.0.0.7/16" -> "10.0.0.7"
      [] a = "FD00::1/64" -> "fd00::1"
DeclaredMask(a) ==
    CASE a = "192.168.1.15/24" -> "255.255.255.0" [] a = "10.0.0.7/16" -> "255.255.0.0"
      [] a = "FD00::1/64" -> "ffff:ffff:ffff:ffff::"

\* C20: a static config applied to a UCI interface, whatever the interface
\* held, leaves it with proto=static, the address and netmask of the
\* declared CIDR, the declared gateway and exactly the declared DNS list.
C20_StaticReplaces ==
    (UciInHand /\ ~op.cfg.DHCP
     /\ op.cfg.Address \in {"192.168.1.15/24", "10.0.0.7/16", "FD00::1/64"}) =>
       /\ ~op.err
       /\ backend.uci[op.target] =
             UciSection("static", DeclaredIP(op.cfg.Address), DeclaredMask(op.cfg.Address),
                        op.cfg.Gateway, op.cfg.DNS)

-----------------------------------------------------------------------------
(* SpecRun: one run of a client's main (cmd/client/linux, cmd/client/openwrt *)
(* and cmd/client/windows), from the set-up of logging to the exit of the   *)
(* process.  What the environment lets succeed is the input of each step.   *)

\* requestConfigWithRetry's maxRetries in each main
RetryBudget(p) ==
    CASE p = "linux" -> 60 [] p = "openwrt" -> 10 [] p = "windows" -> 10

\* requestConfigWithRetry's retryDelay in each main, in seconds
RetryDelayOf(p) ==
    CASE p = "linux" -> RetryDelay [] p = "openwrt" -> 15 [] p = "windows" -> 15

\* the hosts a run starts on
RunHosts(p) == IF p = "linux" THEN MethodProbes \X {LinuxFresh} ELSE Hosts(p)

\* the responses the server may hold for the client: a single network, a
\* map of two, a map with an address that does not parse
RunServed ==
    { Served("web01", CfgStatic, EmptyNetworks),
      Served("web01", CfgStatic, Cfg(Eth0, CfgStatic) @@ Cfg(Eth1, CfgDHCP)),
      Served("fw01", CfgBadAddr, Cfg(Eth0, CfgBadAddr) @@ Cfg(Eth1, CfgStatic)) }

\* what a fetch meets in a run: the server cannot be reached, or it answers
\* with the configuration
RunOutcomes == {NetErr, Answer(200, TRUE)}

\* the failures the tools meet in a run
RunFailures(networks) ==
    IF detectNetworkMethod(probes) = "NetworkManager"
    THEN {Failing(0, [n \in DOMAIN networks |-> t], TRUE) : t \in ToolFailures}
    ELSE {Failing(f, [n \in DOMAIN networks |-> 0], FALSE) : f \in {0, 1}}

\* one thing the run did to the host, and whether it succeeded
Did(what, ok) == [did |-> what, ok |-> ok]

\* the host before the run touched it
Started(b) == [NoOp EXCEPT !.kind = "start", !.before = b, !.once = b]

serverRest == <<heap, instances, lastActivity, now, req, resp, concVars, mainVars>>
runFixed   == <<serverRest, applies, platform, probes, served, noDelay,
                subnetsFile, forge>>
loopVars   == <<maxRetries, retryDelay, ci, clog, cret>>
hostState  == <<backend, op, marker, hostname>>

\* os.Exit(code), log.Fatal (status 1) or the return of main (status 0)
Exit(code) == cpc' = "exited" /\ exitCode' = code

\* part_006:33-36  EnsureMarkerDir; MkdirAll of a directory that exists
\* succeeds
RMarkerDir(ok) ==
    /\ cpc = "start"
    /\ marker => ok
    /\ IF ok THEN cpc' = "log" /\ UNCHANGED exitCode ELSE Exit(1)
    /\ UNCHANGED <<loopVars, hostState, effects, logFile, runFixed>>

\* part_006:38-45  the log file is opened and made the output of log
RLogFile(ok) ==
    /\ cpc = "log"
    /\ IF ok THEN cpc' = "marker" /\ logFile' = "open" /\ UNCHANGED exitCode
       ELSE Exit(1) /\ UNCHANGED logFile
    /\ UNCHANGED <<loopVars, hostState, effects, runFixed>>

\* a check that never finds the marker
IsConfiguredNever == FALSE

\* openwrt.IsConfigured (marker.go:25-29): os.Stat of the marker succeeds
IsConfigured == marker

\* part_006:51-54  already configured: exit 0
RMarkerCheck ==
    /\ cpc = "marker"
    /\ IF IsConfigured THEN Exit(0) ELSE cpc' = "url" /\ UNCHANGED exitCode
    /\ UNCHANGED <<loopVars, hostState, effects, logFile, runFixed>>

\* part_006:57-59  the -server flag must be given
RServerURL(given) ==
    /\ cpc = "url"
    /\ IF given THEN cpc' = "delay" /\ UNCHANGED exitCode ELSE Exit(1)
    /\ UNCHANGED <<loopVars, hostState, effects, logFile, runFixed>>

\* part_006:22  maxStartupDelay, in seconds
maxStartupDelay == 30

\* a draw that may reach the bound given to rand.Int
RandIntsUpTo(max) == 0..(max + 1)

\* part_006:132  what rand.Int(rand.Reader, max+1) may return: [0, max+1)
RandInts(max) == 0..max

\* part_006:131-137  randomDelay; n is the number drawn when the random
\* source works
randomDelay(max, randOk, n) == IF ~randOk THEN max \div 2 ELSE n

StartupEvent(d) == [kind |-> "startup", delay |-> d, outcome |-> NetErr]

\* part_006:62-66  the startup delay, unless -no-delay
RDelay(randOk, n) ==
    /\ cpc = "delay"
    /\ IF noDelay THEN UNCHANGED clog
       ELSE clog' = Append(clog, StartupEvent(randomDelay(maxStartupDelay, randOk, n)))
    /\ cpc' = "mac"
    /\ UNCHANGED <<maxRetries, retryDelay, ci, cret>>
    /\ UNCHANGED <<exitCode, hostState, effects, logFile, runFixed>>

\* the MAC address was looked up
MacEvent == [kind |-> "mac", delay |-> 0, outcome |-> NetErr]

\* a main that goes from the MAC address to the application
RGetMACThenApply(ok) ==
    /\ cpc = "mac"
    /\ clog' = Append(clog, MacEvent)
    /\ IF ok THEN cpc' = "apply" /\ UNCHANGED exitCode ELSE Exit(1)
    /\ UNCHANGED <<maxRetries, retryDelay, ci, cret>>
    /\ UNCHANGED <<hostState, effects, logFile, runFixed>>

\* part_006:69-77  GetPrimaryMAC or GetMACByName
RGetMAC(ok) ==
    /\ cpc = "mac"
    /\ clog' = Append(clog, MacEvent)
    /\ IF ok THEN cpc' = "retry" /\ UNCHANGED exitCode ELSE Exit(1)
    /\ UNCHANGED <<maxRetries, retryDelay, ci, cret>>
    /\ UNCHANGED <<hostState, effects, logFile, runFixed>>

\* part_006:81, part_007:81, openwrt/main.go:77  the call of
\* requestConfigWithRetry
RCallRetry ==
    /\ cpc = "retry"
    /\ maxRetries' = RetryBudget(platform)
    /\ retryDelay' = RetryDelayOf(platform)
    /\ ci' = 0
    /\ cpc' = "loop"
    /\ UNCHANGED <<clog, cret, exitCode, hostState, effects, logFile, runFixed>>

\* a hostname step in every main
SetsHostnameAlways(p) == TRUE

\* part_006:88-91 and part_007:88-91 call SetHostname; the OpenWrt main
\* (openwrt/main.go:76-128) has no such call
SetsHostname(p) == p # "openwrt"

\* part_006:88-91  SetHostname
RSetHostname(ok) ==
    /\ cpc = "apply"
    /\ SetsHostname(platform)
    /\ effects' = Append(effects, Did("hostname", ok))
    /\ IF ok THEN hostname' = served.Hostname /\ cpc' = "network" /\ UNCHANGED exitCode
       ELSE Exit(1) /\ UNCHANGED hostname
    /\ UNCHANGED <<loopVars, backend, op, marker, logFile, runFixed>>

\* the main is at the application of the network configuration
AtNetwork == cpc = (IF SetsHostname(platform) THEN "network" ELSE "apply")

\* a failed application that the main goes on from
NetworkFatalNever(r) == FALSE

\* part_006:103-104, 109-110  log.Fatalf on the applier's error
NetworkFatal(r) == r.err

\* the main after the application r of kind; to is where it goes on
Configured(kind, target, cfg, networks, order, fail, r, to) ==
    /\ backend' = r.b
    /\ op' = Application(kind, target, cfg, networks, order, fail, backend, r)
    /\ effects' = Append(effects, Did("network", ~r.err))
    /\ IF NetworkFatal(r) THEN Exit(1) ELSE cpc' = to /\ UNCHANGED exitCode
    /\ UNCHANGED <<loopVars, marker, hostname, logFile, runFixed>>

\* part_006:98-105  linux.ConfigureAllNetworks(cfg.Networks)
RConfigureAllNetworks(order, fail) ==
    /\ AtNetwork
    /\ platform = "linux"
    /\ served.Networks # EmptyNetworks
    /\ Configured("all", <<>>, DefaultNetwork, served.Networks, order, fail,
                  ConfigureAllNetworks(backend, probes, served.Networks, order, fail),
                  "createMarker")

\* part_006:106-111, part_007:98-100  ConfigureNetwork(cfg.Network)
RConfigureNetwork(failAt) ==
    /\ AtNetwork
    /\ \/ platform = "linux" /\ served.Networks = EmptyNetworks
       \/ platform = "windows"
    /\ IF platform = "linux"
       THEN Configured("one", <<>>, served.Network, EmptyNetworks, <<>>,
                       Failing(failAt, NoFail.nmcli, FALSE),
                       LinuxConfigureNetwork(backend, probes, served.Network, failAt),
                       "createMarker")
       ELSE Configured("windows", <<>>, served.Network, EmptyNetworks, <<>>,
                       Failing(failAt, NoFail.nmcli, FALSE),
                       WindowsConfigureNetwork(backend, served.Network, failAt),
                       "createMarker")

\* openwrt/main.go:87-96  every interface of cfg.Networks; a failure is a
\* warning
REachInterface(order) ==
    /\ AtNetwork
    /\ platform = "openwrt"
    /\ served.Networks # EmptyNetworks
    /\ LET r == ConfigureEachInterface(backend, served.Networks, order, {}, <<>>)
       IN  /\ backend' = r.b
           /\ op' = Application("each", <<>>, DefaultNetwork, served.Networks, order,
                                NoFail, backend, r)
           /\ effects' = Append(effects, Did("network", r.failed = {}))
    /\ cpc' = "commit"
    /\ UNCHANGED <<exitCode, loopVars, marker, hostname, logFile, runFixed>>

\* openwrt/main.go:102-106  ConfigureInterface("lan", cfg.Network)
RLanInterface ==
    /\ AtNetwork
    /\ platform = "openwrt"
    /\ served.Networks = EmptyNetworks
    /\ Configured("interface", Lan, served.Network, EmptyNetworks, <<>>, NoFail,
                  ConfigureInterface(backend, Lan, served.Network), "commit")

\* a commit whose failure the main goes on from
RCommitNotFatal(ok) ==
    /\ cpc = "commit"
    /\ effects' = Append(effects, Did("commit", ok))
    /\ backend' = IF ok THEN [backend EXCEPT !.uciSaved = backend.uci] ELSE backend
    /\ cpc' = "createMarker"
    /\ UNCHANGED exitCode
    /\ UNCHANGED <<loopVars, op, marker, hostname, logFile, runFixed>>

\* openwrt.CommitNetworkChanges, fatal when it fails (main.go:98-100, 107-109)
RCommit(ok) ==
    /\ cpc = "commit"
    /\ effects' = Append(effects, Did("commit", ok))
    /\ IF ok
       THEN /\ backend' = [backend EXCEPT !.uciSaved = backend.uci]
            /\ cpc' = "createMarker"
            /\ UNCHANGED exitCode
       ELSE Exit(1) /\ UNCHANGED backend
    /\ UNCHANGED <<loopVars, op, marker, hostname, logFile, runFixed>>

\* CreateMarker (openwrt/marker.go:32-45), fatal when it fails; a WriteFile
\* that fails may have created the file (left)
RCreateMarker(ok, left) ==
    /\ cpc = "createMarker"
    /\ ok => left
    /\ effects' = Append(effects, Did("marker", ok))
    /\ marker' = left
    /\ IF ok THEN cpc' = "restart" /\ UNCHANGED exitCode ELSE Exit(1)
    /\ UNCHANGED <<loopVars, backend, op, hostname, logFile, runFixed>>

\* part_006:125-127  Reboot(5), fatal when it fails
RReboot(ok) ==
    /\ cpc = "restart"
    /\ platform # "openwrt"
    /\ effects' = Append(effects, Did("reboot", ok))
    /\ Exit(IF ok THEN 0 ELSE 1)
    /\ UNCHANGED <<loopVars, hostState, logFile, runFixed>>

\* openwrt/main.go:123-128  RestartNetwork; a failure is a warning
RRestartNetwork(ok) ==
    /\ cpc = "restart"
    /\ platform = "openwrt"
    /\ effects' = Append(effects, Did("restart", ok))
    /\ Exit(0)
    /\ UNCHANGED <<loopVars, hostState, logFile, runFixed>>

NextRun ==
    \/ \E ok \in BOOLEAN : RMarkerDir(ok)
    \/ \E ok \in BOOLEAN : RLogFile(ok)
    \/ RMarkerCheck
    \/ \E given \in BOOLEAN : RServerURL(given)
    \/ \E randOk \in BOOLEAN, n \in RandInts(maxStartupDelay) : RDelay(randOk, n)
    \/ \E ok \in BOOLEAN : RGetMAC(ok)
    \/ RCallRetry
    \/ CLoop
    \/ CSleep
    \/ \E o \in RunOutcomes : CFetch(o)
    \/ CAfterFetch
    \/ \E ok \in BOOLEAN : RSetHostname(ok)
    \/ \E order \in Orders(DOMAIN served.Networks) :
          \E fail \in RunFailures(served.Networks) : RConfigureAllNetworks(order, fail)
    \/ \E failAt \in {0, 1} : RConfigureNetwork(failAt)
    \/ \E order \in Orders(DOMAIN served.Networks) : REachInterface(order)
    \/ RLanInterface
    \/ \E ok \in BOOLEAN : RCommit(ok)
    \/ \E ok, left \in BOOLEAN : RCreateMarker(ok, left)
    \/ \E ok \in BOOLEAN : RReboot(ok)
    \/ \E ok \in BOOLEAN : RRestartNetwork(ok)

InitRun ==
    /\ ServerInit({<<>>}) /\ MainInit({0})
    /\ maxRetries = 0
    /\ retryDelay = 0
    /\ cpc = "start"
    /\ ci = 0
    /\ clog = <<>>
    /\ cret = "none"
    /\ exitCode = 0
    /\ platform \in Platforms
    /\ \E h \in RunHosts(platform) : probes = h[1] /\ backend = h[2] /\ op = Started(h[2])
    /\ applies = 0
    /\ marker \in BOOLEAN
    /\ hostname = ""
    /\ served \in RunServed
    /\ noDelay \in BOOLEAN
    /\ ForgeOff
    /\ effects = <<>>
    /\ logFile = "closed"

SpecRun == InitRun /\ [][NextRun]_vars

-----------------------------------------------------------------------------
(* Properties of a client run (SpecRun). *)

\* the seconds slept between attempts so far
RECURSIVE Slept(_)
Slept(log) ==
    IF log = <<>> THEN 0
    ELSE (IF Head(log).kind = "sleep" THEN Head(log).delay ELSE 0) + Slept(Tail(log))

\* requestConfigWithRetry gave up
GaveUp == cret = "err"

\* C11: the Linux and the OpenWrt client retry for up to 60 minutes, a
\* budget of 60 attempts with 60 seconds between them, and the Windows
\* client for a shorter time.
C11_RetryWindows ==
    /\ platform \in {"linux", "openwrt"} =>
          /\ \A k \in 1..Len(clog) : clog[k].kind = "sleep" => clog[k].delay = 60
          /\ GaveUp => Cardinality(Fetches) = 60
    /\ platform = "windows" =>
          /\ Slept(clog) < 60 * 60
          /\ GaveUp => Cardinality(Fetches) < 60

\* the marker existed when the run started: it exists and the run has not
\* tried to create it
MarkerAtStart == marker /\ \A i \in 1..Len(effects) : effects[i].did # "marker"

\* no fetch, no change of hostname, network or committed configuration, no
\* write of the marker, no reboot or restart
NoConfigurationLogic ==
    /\ clog = <<>>
    /\ effects = <<>>
    /\ hostname = ""
    /\ backend = op.before
    /\ op.kind = "start"

Exited == cpc = "exited"

\* C12 as stated: a run that starts with the marker in place does nothing
\* of the configuration and exits with status 0.
C12_MarkerExitsZero ==
    MarkerAtStart => (NoConfigurationLogic /\ (Exited => exitCode = 0))

\* C12: a run that starts with the marker in place does nothing of the
\* configuration; it exits with status 0 when the log file could be
\* opened, and with status 1, before it looks for the marker, when not.
C12_MarkerSuppressesConfiguration ==
    MarkerAtStart =>
       /\ NoConfigurationLogic
       /\ cpc \in {"start", "log", "marker", "exited"}
       /\ Exited => exitCode = (IF logFile = "open" THEN 0 ELSE 1)

\* the marker was found and the run exited with status 0
C12_Witness ==
    /\ MarkerAtStart
    /\ Exited
    /\ exitCode = 0
    /\ logFile = "open"

\* the positions in effects of what, done with success
Done(what) == {i \in 1..Len(effects) : effects[i] = Did(what, TRUE)}
Tried(what) == {i \in 1..Len(effects) : effects[i].did = what}

\* the run ended with a fatal failure before the marker was to be created
FatalBeforeMarker ==
    /\ Exited
    /\ exitCode = 1
    /\ logFile = "open"
    /\ Tried("marker") = {}

\* C13: the marker is written at most once in a run, and only after the
\* fetch succeeded, the hostname was set (Linux, Windows) and the network
\* was applied (Linux, Windows) or applied and committed (OpenWrt) with no
\* fatal error; a run that fails fatally before that leaves no marker.
C13_MarkerAfterSuccess ==
    /\ Cardinality(Tried("marker")) <= 1
    /\ \A m \in Tried("marker") :
          /\ cret = "ok"
          /\ clog[Len(clog)].outcome = Answer(200, TRUE)
          /\ platform # "openwrt" =>
                /\ \E h \in Done("hostname") : h < m
                /\ hostname = served.Hostname
                /\ \E n \in Done("network") : n < m
                /\ ~op.err
          /\ platform = "openwrt" =>
                /\ \E n \in Tried("network") : \E c \in Done("commit") : n < c /\ c < m
                /\ op.kind = "interface" => ~op.err
                /\ backend.uciSaved = backend.uci
    /\ FatalBeforeMarker => ~marker

\* a Linux run fetched, set the hostname, applied two interfaces, wrote the
\* marker and rebooted
C13_Witness ==
    /\ platform = "linux"
    /\ Done("marker") # {}
    /\ marker
    /\ op.kind = "all"
    /\ Exited
    /\ exitCode = 0

-----------------------------------------------------------------------------
(* Properties of the OpenWrt run (SpecRun). *)

OpenWrtRun == platform = "openwrt"

\* the positions in effects of what, done and failed
FailedAt(what) == {i \in 1..Len(effects) : effects[i] = Did(what, FALSE)}

\* C21: in an OpenWrt run the interfaces are staged first, uci commit
\* network is issued at most once and after the staging, the restart of
\* the network comes only after a commit that succeeded, and a commit that
\* fails ends the run with neither marker nor restart.
C21_StageCommitRestart ==
    OpenWrtRun =>
       /\ Cardinality(Tried("commit")) <= 1
       /\ Cardinality(Tried("network")) <= 1
       /\ Cardinality(Tried("restart")) <= 1
       /\ \A c \in Tried("commit") : \A n \in Tried("network") : n < c
       /\ Tried("commit") # {} => Tried("network") # {}
       /\ Done("commit") = {} => backend.uciSaved = op.before.uciSaved
       /\ Done("commit") # {} => backend.uciSaved = backend.uci
       /\ \A r \in Tried("restart") : \E c \in Done("commit") : c < r
       /\ FailedAt("commit") # {} =>
             /\ Exited /\ exitCode = 1
             /\ Tried("marker") = {} /\ ~marker
             /\ Tried("restart") = {}

\* two interfaces were staged, committed, and the network restarted
C21_Witness ==
    /\ OpenWrtRun
    /\ op.kind = "each"
    /\ Cardinality(DOMAIN op.networks) = 2
    /\ backend.uci # op.before.uci
    /\ Done("commit") # {}
    /\ Done("restart") # {}
    /\ Exited

\* C22: an OpenWrt run never changes the system hostname, whatever the
\* server answers: the run has no hostname step and the hostname is as at
\* the start.
C22_OpenWrtKeepsHostname ==
    OpenWrtRun => (hostname = "" /\ Tried("hostname") = {})

\* an OpenWrt run configured the network from a response that names the
\* host, wrote the marker and ended
C22_Witness ==
    /\ OpenWrtRun
    /\ served.Hostname # hostname
    /\ Done("network") # {}
    /\ Done("marker") # {}
    /\ Exited

-----------------------------------------------------------------------------
(* Properties of the OpenWrt interface mapping (SpecApply). *)

Digit == {"0", "1", "2", "3", "4", "5", "6", "7", "8", "9"}

\* the digits a name ends with
RECURSIVE NumericSuffix(_)
NumericSuffix(n) ==
    IF n = <<>> \/ n[Len(n)] \notin Digit THEN <<>>
    ELSE Append(NumericSuffix(SubSeq(n, 1, Len(n) - 1)), n[Len(n)])

\* the alias of the suffix N: wan for 0, lan for 1, lan<N> otherwise
AliasOf(suffix) ==
    IF suffix = <<"0">> THEN Wan ELSE IF suffix = <<"1">> THEN Lan ELSE Lan \o suffix

\* the names eth<N> and eth-<N>, in any letter case
EthForm(n) ==
    LET suffix == NumericSuffix(n)
        stem   == ToLowerName(SubSeq(n, 1, Len(n) - Len(suffix)))
    IN  suffix # <<>> /\ stem \in {<<"e", "t", "h">>, <<"e", "t", "h", "-">>}

\* a map was applied interface by interface on OpenWrt
EachInHand == op.kind = "each" /\ op.times = 1

\* the UCI interfaces the commands of the application in hand address are
\* those that alias gives for the names of its map
AddressedBy(alias(_)) ==
    /\ \A k \in 1..Len(op.ran) :
          \E n \in DOMAIN op.networks : op.ran[k].target = alias(n)
    /\ \A n \in DOMAIN op.networks :
          Appliable(op.networks[n]) => \E k \in 1..Len(op.ran) : op.ran[k].target = alias(n)

\* the mapping as stated: the table, and for every other name the alias of
\* its numeric suffix
StatedAlias(n) ==
    CASE n \in {Eth0, EthD0} -> Wan
      [] n \in {Eth1, EthD1} -> Lan
      [] n \in {Eth2, EthD2} -> Lan2
      [] n \in {Eth3, EthD3} -> Lan3
      [] OTHER -> AliasOf(NumericSuffix(n))

\* the mapping of the names eth<N> and eth-<N>; any other name gives lan
\* followed by the lower-case name
EthAlias(n) ==
    IF EthForm(n) THEN StatedAlias(n) ELSE Lan \o ToLowerName(n)

-----------------------------------------------------------------------------
(* SpecParse: the server resolving the one record of its inventory, whose   *)
(* network declaration is drawn from ParseDecls.                            *)

Eth(dhcp4, addresses, gateway4, routes, nameservers) ==
    [DHCP4 |-> dhcp4, Addresses |-> addresses, Gateway4 |-> gateway4,
     Routes |-> routes, Nameservers |-> nameservers]

\* gateway4 and a default route, two addresses
EthGateway4 ==
    Eth(FALSE, <<"10.0.1.15/24", "10.0.9.15/24">>, "10.0.1.1",
        <<RouteTo("default", "10.0.1.254"), RouteTo("10.0.2.0/24", "10.0.1.5")>>,
        <<"1.1.1.1", "9.9.9.9">>)
\* no gateway4, two default routes among three custom routes
EthTwoDefaults ==
    Eth(FALSE, <<"10.0.1.15/24">>, "",
        <<RouteTo("10.0.2.0/24", "10.0.1.5"), RouteTo("0.0.0.0/0", "10.0.1.1"),
          RouteTo("10.0.3.0/24", "10.0.1.6"), RouteTo("default", "10.0.1.254"),
          RouteTo("10.0.2.0/24", "10.0.1.7")>>,
        <<>>)
\* DHCP and nothing else
EthDHCP == Eth(TRUE, <<>>, "", <<>>, <<>>)
\* custom routes and no gateway
EthNoGateway ==
    Eth(FALSE, <<"10.0.1.15/24">>, "",
        <<RouteTo("10.0.3.0/24", "10.0.1.6"), RouteTo("10.0.2.0/24", "10.0.1.5")>>,
        <<"1.1.1.1">>)

\* a text that yaml.Unmarshal takes, with the ethernets it declares
Yaml(ethernets) == [text |-> <<"x", " ", "x">>, yamlErr |-> FALSE, ethernets |-> ethernets]
\* a text that is no mapping: yaml.Unmarshal into the struct fails
Scalar(text) == [text |-> text, yamlErr |-> TRUE, ethernets |-> EmptyNetworks]

ParseDecls ==
    { Yaml(Cfg("eth-0", EthGateway4)),
      Yaml(Cfg("eth-0", EthTwoDefaults) @@ Cfg("eth-1", EthDHCP)),
      Yaml(Cfg("eth-0", EthNoGateway) @@ Cfg("eth-1", EthGateway4)),
      Yaml(EmptyNetworks),
      DeclStatic, DeclDHCP, DeclGarbage,
      Scalar(<<"DHCP">>), Scalar(<<"dhcp", " ">>), Scalar(<<" ", " ", "Dhcp", " ">>),
      Scalar(<<"x", " ", "dhcp">>) }

\* the inventories of one record "a" with the hwaddr aA
ParseInventories ==
    { <<[Name |-> "a", Config |-> Cfg(KHw0, <<"a", "A">>) @@ Cfg(KDecl, decl)]>> :
         decl \in ParseDecls }

NextParse ==
    \/ \E method \in Methods, mac \in Macs, encodeOk \in BOOLEAN :
           HandleConfig(method, mac, encodeOk)
    \/ Finish

InitParse == ServerInit(ParseInventories) /\ MainInit({0}) /\ ClientInit({0})

SpecParse == InitParse /\ [][NextParse]_vars

-----------------------------------------------------------------------------
(* Properties of the parser (SpecParse). *)

\* a resolve has answered with a configuration
Resolved == req.kind = "config" /\ resp.status = 200

\* the declaration of the record the server holds
Declared == DeclOf(Snapshot[1]).ethernets

LiteralDefault(route) == route.To \in {"default", "0.0.0.0/0"}

\* the positions of the default routes among routes
Defaults(routes) == {i \in 1..Len(routes) : LiteralDefault(routes[i])}

Least(S) == CHOOSE i \in S : \A j \in S : i <= j

\* the routes but the one at position k
Without(routes, k) ==
    [i \in 1..(Len(routes) - 1) |-> IF i < k THEN routes[i] ELSE routes[i + 1]]

\* the routes that are not default routes, in their order
RECURSIVE NonDefaults(_)
NonDefaults(routes) ==
    IF routes = <<>> THEN <<>>
    ELSE (IF LiteralDefault(Head(routes)) THEN <<>> ELSE <<Head(routes)>>)
         \o NonDefaults(Tail(routes))

\* C24: the gateway of an interface is the declared gateway4 when there is
\* one, else the via of the first declared default route, else empty; dhcp
\* is the DHCP flag and address the first listed address.
C24_GatewayDhcpAddress ==
    Resolved =>
       /\ DOMAIN resp.networks = DOMAIN Declared
       /\ \A n \in DOMAIN Declared :
             LET eth == Declared[n]
                 cfg == resp.networks[n]
             IN  /\ cfg.Gateway =
                       (IF eth.Gateway4 # "" THEN eth.Gateway4
                        ELSE IF Defaults(eth.Routes) # {}
                             THEN eth.Routes[Least(Defaults(eth.Routes))].Via
                        ELSE "")
                 /\ cfg.DHCP = eth.DHCP4
                 /\ cfg.Address = (IF eth.Addresses = <<>> THEN "" ELSE eth.Addresses[1])

\* the gateway came from the second of five routes, and from gateway4 over
\* a default route
C24_Witness ==
    /\ Resolved
    /\ \E n \in DOMAIN Declared :
          Declared[n] = EthTwoDefaults /\ resp.networks[n].Gateway = "10.0.1.1"

\* C25 as stated: only the default route that supplied the gateway is left
\* out of routes; every other declared route is passed on, in order.
C25_OnlySupplierLeftOut ==
    Resolved =>
       \A n \in DOMAIN Declared :
          LET eth == Declared[n] IN
          resp.networks[n].Routes =
             (IF eth.Gateway4 = "" /\ Defaults(eth.Routes) # {}
              THEN Without(eth.Routes, Least(Defaults(eth.Routes)))
              ELSE eth.Routes)

\* C25: every declared default route is left out of routes, whether it
\* supplied the gateway or not; every other declared route is passed on
\* verbatim and in declared order.
C25_DefaultsLeftOut ==
    Resolved =>
       \A n \in DOMAIN Declared :
          resp.networks[n].Routes =
NonDefaults(Declared[n].Routes)

\* three custom routes were passed on in order and two default routes left
\* out
C25_Witness ==
    /\ Resolved
    /\ \E n \in DOMAIN Declared :
          /\ Declared[n] = EthTwoDefaults
          /\ resp.networks[n].Routes =
                <<RouteTo("10.0.2.0/24", "10.0.1.5"), RouteTo("10.0.3.0/24", "10.0.1.6"),
                  RouteTo("10.0.2.0/24", "10.0.1.7")>>

\* C26: no NetworkConfig the parser produces has a route to default or
\* 0.0.0.0/0, neither in networks nor in the primary network.
C26_NoDefaultInRoutes ==
    Resolved =>
       /\ \A n \in DOMAIN resp.networks :
             \A i \in 1..Len(resp.networks[n].Routes) :
                ~LiteralDefault(resp.networks[n].Routes[i])
       /\ \A i \in 1..Len(resp.network.Routes) : ~LiteralDefault(resp.network.Routes[i])

\* a declaration with a route to 0.0.0.0/0 and a route to default was
\* parsed
C26_Witness ==
    /\ Resolved
    /\ \E n \in DOMAIN Declared :
          /\ Cardinality(Defaults(Declared[n].Routes)) = 2
          /\ resp.networks[n].Routes # <<>>
    /\ resp.network.Routes # <<>>

\* the texts that are DHCP in some letter case, with white space around
DhcpTexts == {<<" ", "Dhcp">>, <<"DHCP">>, <<"dhcp", " ">>, <<" ", " ", "Dhcp", " ">>}

\* the record's declaration is the word DHCP or is no structured document
Degraded == DeclOf(Snapshot[1]).text \in DhcpTexts \/ DeclOf(Snapshot[1]).yamlErr

\* C27: a record whose declaration is "DHCP" (trimmed, any letter case) or
\* does not parse still resolves: the response has the record's name, no
\* networks, and a primary network on DHCP with no address, gateway or DNS.
C27_DegradedResolves ==
    (Degraded /\ req.kind = "config" /\ req.method = "GET"
     /\ Resolve(Snapshot, req.mac) # 0) =>
       /\ resp.status \in {200, 500}
       /\ resp.status = 200 =>
             /\ resp.hostname = Snapshot[1].Name
             /\ resp.networks = EmptyNetworks
             /\ resp.network.DHCP
             /\ resp.network.Address = ""
             /\ resp.network.Gateway = ""
             /\ resp.network.DNS = <<>>

\* a record declared "dhcp " was resolved
C27_Witness ==
    /\ Resolved
    /\ DeclOf(Snapshot[1]).text = <<"dhcp", " ">>
    /\ resp.hostname = "a"
    /\ resp.network.DHCP

-----------------------------------------------------------------------------
(* SpecReload: two reloads and a resolve interleaved, the instances file    *)
(* changing between the reloads.                                            *)

ReloadResolvers == {"r1"}
ReloadMacs == {<<"A", "a">>}
ReloadFiles == {Unreadable, FileOf(<<RecA>>), FileOf(<<RecB, RecA>>)}

NextReload ==
    \/ \E t \in ReloadResolvers, mac \in ReloadMacs : RBegin(t, "GET", mac)
    \/ \E t \in ReloadResolvers : RLock(t)
    \/ \E t \in ReloadResolvers : RFind(t)
    \/ \E t \in ReloadResolvers : RUnlock(t)
    \/ \E t \in ReloadResolvers : RParse(t)
    \/ \E t \in ReloadResolvers : RRespond(t, TRUE)
    \/ \E t \in ReloadResolvers : RFinish(t)
    \/ \E l \in Reloaders, method \in Methods : LBegin(l, method)
    \/ \E l \in Reloaders : LLock(l)
    \/ \E l \in Reloaders, data \in ReloadFiles : LRead(l, data)
    \/ \E l \in Reloaders : LAssign(l)
    \/ \E l \in Reloaders : LUnlock(l)
    \/ \E l \in Reloaders : LCount(l)
    \/ \E l \in Reloaders : LFinish(l)

InitReload == ServerInit({<<RecA>>}) /\ MainInit({0}) /\ ClientInit({0})

SpecReload == InitReload /\ [][NextReload]_vars

\* C28: a reload that answers 200 reports the number of records it loaded
\* itself, whatever other reloads and resolves run beside it.
C28_CountOfThisReload ==
    \A l \in Reloaders :
        (lpc[l] = "done" /\ lresp[l].status = 200)
        => lresp[l].count = Len(ldata[l].records)

-----------------------------------------------------------------------------
(* Properties of the startup delay (SpecRun). *)

\* the startup sleeps among the events of the run
Startups == {k \in 1..Len(clog) : clog[k].kind = "startup"}

\* C29: the startup delay is a whole number of seconds from 0 to
\* maxStartupDelay (30), also when the random source fails (then half of
\* it); it is slept once, before the first fetch, and not at all under
\* -no-delay.
C29_StartupDelay ==
    /\ \A k \in Startups : clog[k].delay \in 0..30
    /\ \A n \in 0..30 : randomDelay(30, FALSE, n) = 15
    /\ Startups \subseteq {1}
    /\ noDelay => Startups = {}
    /\ (~noDelay /\ Fetches # {}) => Startups = {1}

\* a run slept 30 seconds and then fetched; the fallback value was slept too
C29_Witness ==
    /\ ~noDelay
    /\ Startups = {1}
    /\ clog[1].delay = 30
    /\ Fetches # {}

-----------------------------------------------------------------------------
(* Properties of the Windows applier (SpecApply). *)

\* a NetworkConfig has been applied once on a host with an adapter
NetshInHand == op.kind = "windows" /\ op.times = 1 /\ op.before.netsh.name # <<>>

NetshVerbs == {"set address", "set dns", "add dns"}

\* C30: for a static config with the DNS servers d1..dn the Windows applier
\* first sets the address, with the mask of the CIDR prefix and the gateway,
\* then sets d1 with one "set dns" and adds d2..dn in declared order with
\* "add dns" at index 2..n; under dhcp=true it switches address and DNS to
\* DHCP; it runs no route command.  A failing command ends the sequence.
C30_NetshSequence ==
    NetshInHand =>
       LET cfg == op.cfg
           n == Len(cfg.DNS)
           ran == op.ran
       IN  /\ \A k \in 1..Len(ran) : ran[k].tool = "netsh" /\ ran[k].verb \in NetshVerbs
           /\ (~cfg.DHCP /\ cfg.Address \in {"192.168.1.15/24", "10.0.0.7/16", "FD00::1/64"}) =>
                 /\ Len(ran) = IF op.fail.file \in 1..(1 + n) THEN op.fail.file ELSE 1 + n
                 /\ ran[1].verb = "set address"
                 /\ ran[1].val = <<"static", DeclaredIP(cfg.Address),
                                   DeclaredMask(cfg.Address), cfg.Gateway>>
                 /\ Len(ran) >= 2 => ran[2].verb = "set dns" /\ ran[2].val = <<"static", cfg.DNS[1]>>
                 /\ \A k \in 3..Len(ran) :
                       /\ ran[k].verb = "add dns"
                       /\ ran[k].val = <<cfg.DNS[k - 1], ToString(k - 1)>>
                 /\ ~op.err =>
                       /\ op.once.netsh.source = "static"
                       /\ op.once.netsh.dns = (IF n = 0 THEN op.before.netsh.dns ELSE cfg.DNS)
           /\ cfg.DHCP =>
                 /\ Len(ran) = IF op.fail.file \in 1..2 THEN op.fail.file ELSE 2
                 /\ ran[1].verb = "set address" /\ ran[1].val = <<"dhcp">>
                 /\ Len(ran) = 2 => ran[2].verb = "set dns" /\ ran[2].val = <<"dhcp">>
                 /\ ~op.err => op.once.netsh.source = "dhcp" /\ op.once.netsh.dnsSource = "dhcp"

\* three DNS servers were set and added at index 2 and 3 after the address
C30_Witness ==
    /\ NetshInHand
    /\ op.cfg = CfgThreeDns
    /\ ~op.err
    /\ Len(op.ran) = 4
    /\ op.ran[4].val = <<"9.9.9.9", "3">>
    /\ op.once.netsh.dns = <<"1.1.1.1", "8.8.8.8", "9.9.9.9">>

-----------------------------------------------------------------------------
(* SpecForge: forge invocations one after the other on the shared          *)
(* subnets.json, each call running to completion.                          *)

forgeRest == <<serverRest, loopVars, cpc, exitCode, hostState, applies, platform,
               probes, served, effects, logFile, noDelay>>

\* a file that holds every octet but the free ones, each for the project
\* named by its octet, in the order of the octets
Filled(free) ==
    [i \in 1..(LastOctet - Cardinality(free)) |->
        LET o == CHOOSE o \in (1..LastOctet) \ free :
                    o - Cardinality({u \in free : u < o}) = i
        IN  Allocation(ToString(o), o, 0)]

\* Filled with the octet o held by the project p
HeldBy(allocations, o, p) ==
    [i \in DOMAIN allocations |->
        IF allocations[i].SubnetOctet = o THEN Allocation(p, o, 0) ELSE allocations[i]]

\* the files forge starts on: none, an unreadable one, an empty one, one
\* with octets 1 and 100 free, one with the last octet free, a full one, and
\* a full one where project "a" holds octet 7
SubnetFiles ==
    { MissingFile, BadFile, OkFile(<<>>),
      OkFile(Filled({1, 100})),
      OkFile(Filled({LastOctet})),
      OkFile(Filled({})),
      OkFile(HeldBy(Filled({}), 7, "a")) }

Projects == {"a", "b", "c"}

\* time.Now() at the allocations
AllocTimes == {1, 2}

Returned(f, cmd, projectName, r, did, exit) ==
    /\ subnetsFile' = r.file
    /\ forge' = [forge EXCEPT ![f] = Invocation(cmd, projectName, "done", subnetsFile,
                                                readSubnetsFile(subnetsFile).data,
                                                r.octet, r.err, did, exit)]
    /\ UNCHANGED forgeRest

\* a call of forge.AllocateSubnet (forge plan, forge apply: main.go:373-392)
CallAllocateSubnet(f, projectName, at, writeOk) ==
    LET r == AllocateSubnet(subnetsFile, projectName, at, writeOk)
    IN  Returned(f, "allocate", projectName, r, <<>>, IF r.err THEN 1 ELSE 0)

\* a call of forge.ReleaseSubnet
CallReleaseSubnet(f, projectName, writeOk) ==
    LET r == ReleaseSubnet(subnetsFile, projectName, writeOk)
    IN  Returned(f, "release", projectName, r, <<>>, IF r.err THEN 1 ELSE 0)

\* cmd/forge runDestroy (main.go:257-314) for the project of the working
\* directory
runDestroy(f, projectName, tofuOk, writeOk) ==
    LET got == GetProjectSubnet(subnetsFile, projectName)
        rel == ReleaseSubnet(subnetsFile, projectName, writeOk)
    IN  IF got.err \/ got.octet = 0
        THEN Returned(f, "destroy", projectName,
                      [file |-> subnetsFile, octet |-> 0, err |-> TRUE], <<>>, 1)
        ELSE IF ~tofuOk
        THEN Returned(f, "destroy", projectName,
                      [file |-> subnetsFile, octet |-> got.octet, err |-> TRUE],
                      <<Did("stop server", TRUE), Did("tofu destroy", FALSE)>>, 1)
        ELSE Returned(f, "destroy", projectName, rel,
                      <<Did("stop server", TRUE), Did("tofu destroy", TRUE),
                        Did("release", ~rel.err)>>, 0)

NextForge ==
    \/ \E p \in Projects, at \in AllocTimes, writeOk \in BOOLEAN :
          CallAllocateSubnet("f1", p, at, writeOk)
    \/ \E p \in Projects, writeOk \in BOOLEAN : CallReleaseSubnet("f1", p, writeOk)
    \/ \E p \in Projects, tofuOk \in BOOLEAN, writeOk \in BOOLEAN :
          runDestroy("f1", p, tofuOk, writeOk)

InitForge ==
    /\ ServerInit({<<>>}) /\ MainInit({0}) /\ LoopOff
    /\ retryDelay = RetryDelay
    /\ platform = "linux"
    /\ probes = NoProbes
    /\ backend = BackendOff
    /\ op = NoOp
    /\ applies = 0
    /\ marker = FALSE
    /\ hostname = ""
    /\ served = NoServed
    /\ noDelay = FALSE
    /\ effects = <<>>
    /\ logFile = "closed"
    /\ subnetsFile \in SubnetFiles
    /\ forge = [f \in Invocations |-> NoInvocation]

SpecForge == InitForge /\ [][NextForge]_vars

-----------------------------------------------------------------------------
(* Properties of the subnet allocations (SpecForge). *)

\* the allocations a file holds; a missing file holds none
Held(file) == {file.allocations[i] : i \in 1..Len(file.allocations)}

\* the allocations a file holds for a project
HeldFor(file, p) == {a \in Held(file) : a.Project = p}

\* the octets of 1..254 no allocation of the file has
FreeOctets(file) == (1..254) \ {a.SubnetOctet : a \in Held(file)}

Lowest(S) == CHOOSE o \in S : \A u \in S : o <= u

\* the call that has just returned
Last == forge["f1"]

\* C31: after any sequence of AllocateSubnet and ReleaseSubnet calls every
\* project holds at most one allocation, no two projects hold the same octet
\* and every allocated octet is in 1..254.
C31_AllocationsWellFormed ==
    /\ Len(subnetsFile.allocations) = Cardinality(Held(subnetsFile))
    /\ \A a, b \in Held(subnetsFile) :
          (a.Project = b.Project \/ a.SubnetOctet = b.SubnetOctet) => a = b
    /\ \A a \in Held(subnetsFile) : a.SubnetOctet \in 1..254

\* three projects were allocated after a release, one of them for the second
\* time
C31_Witness ==
    /\ Last.cmd = "allocate" /\ ~Last.err
    /\ HeldFor(Last.before, Last.project) # {}
    /\ \A p \in Projects : HeldFor(subnetsFile, p) # {}
    /\ \E p \in Projects : \E a \in HeldFor(subnetsFile, p) : a.SubnetOctet = 1

\* C32: AllocateSubnet(p) returns p's octet and leaves the file as it was
\* when p has an allocation; else it allocates the lowest octet of 1..254
\* not in use and persists it (or returns an error, the file as it was, when
\* the file cannot be written); when all 254 octets are in use it returns an
\* error and leaves the file as it was.
C32_LowestFreeOctet ==
    (Last.cmd = "allocate" /\ Last.before.kind # "bad") =>
       LET p == Last.project
           mine == HeldFor(Last.before, p)
           free == FreeOctets(Last.before)
       IN  IF mine # {}
           THEN /\ ~Last.err
                /\ \E a \in mine : Last.octet = a.SubnetOctet
                /\ subnetsFile = Last.before
           ELSE IF free = {}
           THEN Last.err /\ subnetsFile = Last.before
           ELSE IF Last.err THEN subnetsFile = Last.before
           ELSE /\ Last.octet = Lowest(free)
                /\ subnetsFile.kind = "ok"
                /\ \E at \in AllocTimes :
                      Held(subnetsFile) =
                         Held(Last.before) \cup {Allocation(p, Last.octet, at)}

\* the octet 7 that project a released went to project b, every other octet
\* being in use
C32_Witness ==
    /\ Last.cmd = "allocate" /\ ~Last.err
    /\ Last.project = "b"
    /\ Last.octet = 7
    /\ Len(Last.before.allocations) = 253
    /\ Len(subnetsFile.allocations) = 254

\* what a destroy did, in order
Steps == [k \in 1..Len(Last.did) |-> Last.did[k].did]

\* C33: forge destroy fails before stopping the server or running tofu when
\* the project has no allocation; it retains the allocation when tofu
\* destroy fails; it releases only after tofu destroy succeeded; after a
\* successful destroy the project has no allocation and its octet is free.
\* ReleaseSubnet on a project without allocation returns an error and
\* leaves the file as it was.
C33_ReleaseAfterDestroy ==
    /\ (Last.cmd = "destroy" /\ Last.before.kind # "bad") =>
          LET mine == HeldFor(Last.before, Last.project)
          IN  /\ mine = {} => Last.exit = 1 /\ Last.did = <<>> /\ subnetsFile = Last.before
              /\ \A k \in 1..Len(Steps) :
                    Steps[k] = "release" =>
                       \E j \in 1..(k - 1) : Last.did[j] = Did("tofu destroy", TRUE)
              /\ Did("tofu destroy", FALSE) \in {Last.did[k] : k \in 1..Len(Last.did)} =>
                    Last.exit = 1 /\ subnetsFile = Last.before
              /\ Last.exit = 0 =>
                    /\ HeldFor(subnetsFile, Last.project) = {}
                    /\ \A a \in mine : a.SubnetOctet \in FreeOctets(subnetsFile)
    /\ (Last.cmd = "release" /\ Last.before.kind # "bad"
        /\ HeldFor(Last.before, Last.project) = {}) =>
          Last.err /\ subnetsFile = Last.before

-----------------------------------------------------------------------------
(* SpecForgeRace: two forge invocations for different projects running     *)
(* AllocateSubnet at once; the read and the write of subnets.json are      *)
(* separate steps and nothing locks the file.                              *)

\* the project of each invocation's working directory
ProjectOf == [f \in Invocations |-> IF f = "f1" THEN "a" ELSE "b"]

RaceFiles == {MissingFile, OkFile(<<>>), OkFile(<<Allocation("c", 1, 0)>>),
              OkFile(<<Allocation("b", 2, 0)>>), OkFile(Filled({LastOctet}))}

\* part_001:97-137  readSubnetsFile and the allocation made in memory
AllocateRead(f, at) ==
    LET rd == readSubnetsFile(subnetsFile)
        pl == AllocatePlan(rd.data, ProjectOf[f], at)
        inv(pc, octet, err) ==
            Invocation("allocate", ProjectOf[f], pc, subnetsFile, pl.data, octet, err, <<>>,
                       IF err THEN 1 ELSE 0)
    IN  /\ forge[f].pc = "idle"
        /\ forge' = [forge EXCEPT ![f] =
                        IF pl.write THEN inv("write", pl.octet, FALSE)
                        ELSE inv("done", pl.octet, pl.err)]
        /\ UNCHANGED <<subnetsFile, forgeRest>>

\* part_001:139-143  writeSubnetsFile and the return
AllocateWrite(f, writeOk) ==
    /\ forge[f].pc = "write"
    /\ subnetsFile' = writeSubnetsFile(subnetsFile, forge[f].data, writeOk)
    /\ forge' = [forge EXCEPT ![f].pc = "done",
                              ![f].err = ~writeOk,
                              ![f].octet = IF writeOk THEN @ ELSE 0,
                              ![f].exit = IF writeOk THEN 0 ELSE 1]
    /\ UNCHANGED forgeRest

NextForgeRace ==
    \/ \E f \in Invocations, at \in AllocTimes : AllocateRead(f, at)
    \/ \E f \in Invocations, writeOk \in BOOLEAN : AllocateWrite(f, writeOk)

InitForgeRace ==
    /\ ServerInit({<<>>}) /\ MainInit({0}) /\ LoopOff
    /\ retryDelay = RetryDelay
    /\ platform = "linux"
    /\ probes = NoProbes
    /\ backend = BackendOff
    /\ op = NoOp
    /\ applies = 0
    /\ marker = FALSE
    /\ hostname = ""
    /\ served = NoServed
    /\ noDelay = FALSE
    /\ effects = <<>>
    /\ logFile = "closed"
    /\ subnetsFile \in RaceFiles
    /\ forge = [f \in Invocations |-> NoInvocation]

SpecForgeRace == InitForgeRace /\ [][NextForgeRace]_vars

\* C39: when two invocations for different projects allocate at once, both
\* allocations are recorded in the file and the projects get different
\* octets, whatever the order of the reads and writes.
C39_NoLostAllocation ==
    (\A f \in Invocations : forge[f].pc = "done" /\ ~forge[f].err) =>
       /\ \A f \in Invocations :
             \E a \in Held(subnetsFile) :
                a.Project = forge[f].project /\ a.SubnetOctet = forge[f].octet
       /\ forge["f1"].octet # forge["f2"].octet

-----------------------------------------------------------------------------
(* Properties of the order of a client run (SpecRun). *)

\* the log opens with an event of kind a if there is one, then has an
\* event of kind b if there is one, and has events of other kinds from
\* then on
OpensWith(a, b) ==
    \A i \in 1..Len(clog) :
        /\ clog[i].kind = a => i = 1
        /\ clog[i].kind = b => (i = 1 \/ (i = 2 /\ clog[1].kind = a))

\* the host has been changed: hostname, network backends, marker, reboot
Mutated ==
    \/ effects # <<>>
    \/ hostname # ""
    \/ backend # op.before
    \/ op.kind # "start"

\* the last event is a fetch that succeeded, and the loop returned it
FetchSucceeded ==
    /\ cret = "ok"
    /\ clog # <<>>
    /\ clog[Len(clog)].kind = "fetch"
    /\ ~clog[Len(clog)].outcome.neterr
    /\ clog[Len(clog)].outcome.status = 200

\* the retry loop has finished before the application begins, and nothing
\* is changed before a fetch succeeded
LoopThenApplication ==
    /\ [](Mutated => FetchSucceeded)
    /\ [][Mutated => clog' = clog]_vars
    /\ [][clog' # clog => ~Mutated']_vars

-----------------------------------------------------------------------------
(* Termination of a client run.  Every network request and external        *)
(* command returns: a run that has not exited moves on from the step it is *)
(* at.                                                                     *)

Positions == {"start", "log", "marker", "url", "delay", "mac", "retry", "loop", "sleep",
              "fetch", "returned", "apply", "network", "commit", "createMarker",
              "restart", "exited"}

\* the run leaves the position it is at
Advance == cpc # "exited" /\ cpc' \in Positions

SpecRunFair == InitRun /\ [][NextRun]_vars /\ WF_cpc(Advance)

\* the main has a statement to run at the position it is at: the guards of
\* the steps cover every platform and response
CanStep ==
    CASE cpc = "network" -> platform \in {"linux", "windows"}
      [] cpc = "commit" -> platform = "openwrt"
      [] cpc = "restart" -> platform \in Platforms
      [] OTHER -> cpc \in Positions

\* the run created the marker and then tried to reboot or to restart the
\* network
Succeeded ==
    /\ Done("marker") # {}
    /\ Done("reboot") # {} \/ Tried("restart") # {}

\* at most maxRetries fetch attempts are made
FetchesBounded == Cardinality(Fetches) <= maxRetries

\* C35 as stated: every run ends, in success (marker created, reboot or
\* restart initiated) or in a fatal failure with a non-zero exit status,
\* after at most maxRetries fetch attempts.
C35_SuccessOrFatal ==
    /\ <>Exited
    /\ [](CanStep /\ FetchesBounded)
    /\ [](Exited => ((exitCode = 0 /\ Succeeded) \/ exitCode # 0))

\* C35: every run ends: in success (marker created, reboot or restart
\* initiated, status 0), at once with status 0 and nothing done when the
\* marker was in place at the start, or in a fatal failure with a non-zero
\* status; at most maxRetries fetch attempts are made.
C35_Terminates ==
    /\ <>Exited
    /\ [](CanStep /\ FetchesBounded)
    /\ [](Exited => \/ exitCode = 0 /\ Succeeded
                    \/ exitCode = 0 /\ MarkerAtStart /\ NoConfigurationLogic
                    \/ exitCode # 0)

\* a run gave up after all its fetch attempts failed
C35_Witness ==
    /\ Exited
    /\ exitCode = 1
    /\ maxRetries > 0
    /\ Cardinality(Fetches) = maxRetries

-----------------------------------------------------------------------------
(* SpecTwice: two resolves of one MAC while nothing reloads the inventory.  *)

TwiceMacs == {<<"a", "A">>, <<"A", "-">>}

NextTwice ==
    \/ \E t \in Resolvers, mac \in TwiceMacs : RBegin(t, "GET", mac)
    \/ \E t \in Resolvers : RLock(t)
    \/ \E t \in Resolvers : RFind(t)
    \/ \E t \in Resolvers : RUnlock(t)
    \/ \E t \in Resolvers : RParse(t)
    \/ \E t \in Resolvers, encodeOk \in BOOLEAN : RRespond(t, encodeOk)
    \/ \E t \in Resolvers : RFinish(t)

InitTwice == ServerInit(ParseInventories) /\ MainInit({0}) /\ ClientInit({0})

SpecTwice == InitTwice /\ [][NextTwice]_vars

\* the resolve of goroutine t has answered with a configuration
Answered(t) == rpc[t] = "done" /\ rresp[t].status = 200

\* the entries of a networks map
Entries(networks) == {networks[n] : n \in DOMAIN networks}

-----------------------------------------------------------------------------
(* Properties of the per-interface loop on OpenWrt (SpecApply). *)

\* C38: on OpenWrt the staged UCI state after the loop over a networks map
\* is the same for every order of the range: no two names of the map are
\* applied to one UCI interface, so no interface's settings replace
\* another's.
C38_OrderIrrelevant ==
    (op.kind = "each" /\ op.times = 1)
    => /\ \A n, m \in DOMAIN op.networks :
              MapInterfaceName(n) = MapInterfaceName(m) => n = m
       /\ \A order \in Orders(DOMAIN op.networks) :
              ConfigureEachInterface(op.before, op.networks, order, {}, <<>>).b
                 = op.once

====
